---- MODULE Spec2Model ----
(***************************************************************************)
(* A model of react-win32dialog: the DialogRect geometry engine, the       *)
(* Win32Dialog window adapter, the Timer primitive and the WindowManager.  *)
(***************************************************************************)
EXTENDS Integers, Sequences, FiniteSets, TLC

(***************************************************************************)
(* Bounds of the model.                                                    *)
(***************************************************************************)
\* largest absolute coordinate / size a rect may take in the geometry runs
MaxCoord == 14

(***************************************************************************)
(* JavaScript values.  An optional number is <<>> (undefined) or <<n>>.    *)
(***************************************************************************)
Undef == <<>>
Num(n) == <<n>>
\* JavaScript truthiness of an optional number: defined and not 0
Truthy(o) == Len(o) = 1 /\ o[1] # 0

NO_VALUE == -1

cursorState ==
    [regular |-> 0, bottom |-> 1, bottomright |-> 2, bottomleft |-> 3,
     top |-> 4, topright |-> 5, topleft |-> 6, right |-> 7, left |-> 8]

\* the 8 edge / corner states
ResizeStates == 1..8
CursorStates == 0..8

defaultRect == [min_w |-> 118, min_h |-> 23, border_w |-> 2]

(***************************************************************************)
(* DialogRect (rect module).  A rect is a record; right and bottom are     *)
(* recomputed by every _update, as in the source.                          *)
(***************************************************************************)
isBetween(p, l, r) == p >= l /\ p <= r

\* new DialogRect(x, y, w, h, min_w, min_h, border_w), every argument optional
DialogRect(x, y, w, h, min_w, min_h, border_w) ==
    LET bw == IF Truthy(border_w) /\ border_w[1] >= defaultRect.border_w
              THEN border_w[1] ELSE defaultRect.border_w
        mw == (IF Truthy(min_w) /\ min_w[1] > 0 THEN min_w[1] ELSE defaultRect.min_w)
              + 2 * bw
        mh == (IF Truthy(min_h) /\ min_h[1] > 0 THEN min_h[1] ELSE defaultRect.min_h)
              + 2 * bw
        l  == IF Truthy(x) THEN x[1] ELSE 1
        t  == IF Truthy(y) THEN y[1] ELSE 1
        wd == IF Truthy(w) /\ w[1] > mw THEN w[1] ELSE mw
        ht == IF Truthy(h) /\ h[1] > mh THEN h[1] ELSE mh
    IN  [borderWidth |-> bw, minWidth |-> mw, minHeight |-> mh,
         left |-> l, top |-> t, width |-> wd, height |-> ht,
         right |-> wd + l, bottom |-> t + ht,
         cursorOffset |-> [x |-> 0, y |-> 0]]

\* _update(x, y, w, h): a falsy argument (undefined or 0) leaves the field alone
_update(rc, x, y, w, h) ==
    LET l  == IF Truthy(x) THEN x[1] ELSE rc.left
        t  == IF Truthy(y) THEN y[1] ELSE rc.top
        wd == IF Truthy(w) THEN w[1] ELSE rc.width
        ht == IF Truthy(h) THEN h[1] ELSE rc.height
    IN  [rc EXCEPT !.left = l, !.top = t, !.width = wd, !.height = ht,
                   !.right = wd + l, !.bottom = t + ht]

\* _resizeTop(cursor_y) -> <<new_height, new_top>>
_resizeTop(rc, cursor_y) ==
    LET cy == IF cursor_y <= 0 THEN 1 ELSE cursor_y
        nh == rc.height - (cy - rc.top)
    IN  IF nh < rc.minHeight
        THEN <<rc.minHeight, cy - (rc.minHeight - nh)>>
        ELSE <<nh, cy>>

\* a faulty _resizeLeft: at the minimum width the left edge follows the cursor
_resizeLeftUnpinned(rc, cursor_x) ==
    LET cx == IF cursor_x <= 0 THEN 1 ELSE cursor_x
        nw == rc.width - (cx - rc.left)
    IN  IF nw < rc.minWidth THEN <<rc.minWidth, cx>> ELSE <<nw, cx>>

\* _resizeLeft(cursor_x) -> <<new_width, new_left>>
_resizeLeft(rc, cursor_x) ==
    LET cx     == IF cursor_x <= 0 THEN 1 ELSE cursor_x
        diff_x == cx - rc.left
        nw     == rc.width - diff_x
        nl     == rc.left + diff_x
    IN  IF nw < rc.minWidth
        THEN <<rc.minWidth, nl - (rc.minWidth - nw)>>
        ELSE <<nw, nl>>

\* _resizeBottom(cursor_y) -> new_height
_resizeBottom(rc, cursor_y) ==
    LET nh == rc.height + cursor_y - rc.bottom
    IN  IF nh < rc.minHeight THEN rc.minHeight ELSE nh

\* a faulty _resizeRight: the new width is not held at the minimum
_resizeRightUnclamped(rc, cursor_x) == rc.width + cursor_x - rc.right

\* _resizeRight(cursor_x) -> new_width
_resizeRight(rc, cursor_x) ==
    LET nw == rc.width + cursor_x - rc.right
    IN  IF nw < rc.minWidth THEN rc.minWidth ELSE nw

\* resizeToCursor(cursor_pos, resize_type)
resizeToCursor(rc, cursor_pos, resize_type) ==
    LET cx == cursor_pos.x + rc.cursorOffset.x
        cy == cursor_pos.y + rc.cursorOffset.y
        cs == cursorState
        usesTop    == resize_type \in {cs.top, cs.topright, cs.topleft}
        usesBottom == resize_type \in {cs.bottom, cs.bottomright, cs.bottomleft}
        usesLeft   == resize_type \in {cs.left, cs.bottomleft, cs.topleft}
        usesRight  == resize_type \in {cs.right, cs.bottomright, cs.topright}
        new_height == IF usesTop THEN Num(_resizeTop(rc, cy)[1])
                      ELSE IF usesBottom THEN Num(_resizeBottom(rc, cy))
                      ELSE Undef
        new_top    == IF usesTop THEN Num(_resizeTop(rc, cy)[2]) ELSE Undef
        new_width  == IF usesLeft THEN Num(_resizeLeft(rc, cx)[1])
                      ELSE IF usesRight THEN Num(_resizeRight(rc, cx))
                      ELSE Undef
        new_left   == IF usesLeft THEN Num(_resizeLeft(rc, cx)[2]) ELSE Undef
    IN  _update(rc, new_left, new_top, new_width, new_height)

\* a faulty getCursorResizeState: the straight edges are tested first
getCursorResizeStateEdgesFirst(rc, cursor_pos) ==
    LET widthOffset == rc.borderWidth + 2
        cs == cursorState
    IN  IF ~isBetween(cursor_pos.y, rc.top, rc.bottom) THEN cs.regular
        ELSE IF isBetween(cursor_pos.x, rc.right - widthOffset, rc.right) THEN cs.right
        ELSE IF isBetween(cursor_pos.x, rc.left, rc.left + widthOffset) THEN cs.left
        ELSE IF ~isBetween(cursor_pos.x, rc.left, rc.right) THEN cs.regular
        ELSE IF isBetween(cursor_pos.y, rc.bottom - widthOffset, rc.bottom) THEN cs.bottom
        ELSE IF isBetween(cursor_pos.y, rc.top, rc.top + widthOffset) THEN cs.top
        ELSE cs.regular

\* getCursorResizeState(cursor_pos)
getCursorResizeState(rc, cursor_pos) ==
    LET dgOffset    == 4
        widthOffset == rc.borderWidth + 2
        totalOffset == widthOffset + dgOffset
        cs == cursorState
    IN  IF isBetween(cursor_pos.x, rc.right - widthOffset, rc.right)
        THEN IF isBetween(cursor_pos.y, rc.top, rc.bottom)
             THEN IF cursor_pos.y >= rc.bottom - totalOffset THEN cs.bottomright
                  ELSE IF cursor_pos.y <= rc.top + totalOffset THEN cs.topright
                  ELSE cs.right
             ELSE cs.regular
        ELSE IF isBetween(cursor_pos.x, rc.left, rc.left + widthOffset)
        THEN IF isBetween(cursor_pos.y, rc.top, rc.bottom)
             THEN IF cursor_pos.y >= rc.bottom - totalOffset THEN cs.bottomleft
                  ELSE IF cursor_pos.y <= rc.top + totalOffset THEN cs.topleft
                  ELSE cs.left
             ELSE cs.regular
        ELSE IF isBetween(cursor_pos.x, rc.left, rc.right)
        THEN IF isBetween(cursor_pos.y, rc.bottom - widthOffset, rc.bottom)
             THEN cs.bottom
             ELSE IF isBetween(cursor_pos.y, rc.top, rc.top + widthOffset)
             THEN cs.top
             ELSE cs.regular
        ELSE cs.regular

\* coverViewport(), the viewport being innerWidth x innerHeight
coverViewport(rc, innerWidth, innerHeight) ==
    _update(rc, Num(1), Num(1), Num(innerWidth), Num(innerHeight))

\* moveToCursor(cursor_pos)
moveToCursor(rc, cursor_pos) ==
    _update(rc, Num(cursor_pos.x + rc.cursorOffset.x),
                Num(cursor_pos.y + rc.cursorOffset.y), Undef, Undef)

\* a faulty setCursorOffset: the offset is reset and never computed
setCursorOffsetZero(rc, cursor_pos, resize_type) ==
    [rc EXCEPT !.cursorOffset = [x |-> 0, y |-> 0]]

\* setCursorOffset(cursor_pos, resize_type); resize_type = Undef is the move
\* gesture (the switch's default branch), cursor_pos = Undef only resets
setCursorOffset(rc, cursor_pos, resize_type) ==
    LET cs == cursorState
        e  == IF resize_type = Undef THEN NO_VALUE ELSE resize_type[1]
        p  == cursor_pos[1]
        xRight == e \in {cs.right, cs.bottomright, cs.topright}
        xLeft  == e \in {cs.left, cs.bottomleft, cs.topleft}
        yTop   == e \in {cs.top, cs.topright, cs.topleft}
        yBot   == e \in {cs.bottom, cs.bottomright, cs.bottomleft}
        isDefault == e \notin CursorStates
        ox == IF xRight THEN rc.right - p.x
              ELSE IF xLeft \/ isDefault THEN rc.left - p.x
              ELSE 0
        oy == IF yBot THEN rc.bottom - p.y
              ELSE IF yTop \/ isDefault THEN rc.top - p.y
              ELSE 0
    IN  IF cursor_pos = Undef
        THEN [rc EXCEPT !.cursorOffset = [x |-> 0, y |-> 0]]
        ELSE [rc EXCEPT !.cursorOffset = [x |-> ox, y |-> oy]]

\* moveWithinViewport()
moveWithinViewport(rc) ==
    _update(rc, Num(IF rc.left <= 0 THEN 1 ELSE rc.left),
                Num(IF rc.top <= 0 THEN 1 ELSE rc.top), Undef, Undef)

(***************************************************************************)
(* titlebarbutton module and the Timer primitive.                          *)
(***************************************************************************)
titlebarButtons == [minimize |-> 0, maximize |-> 1, close |-> 2]
ButtonIds == 0..2

\* a Timer is its id (null or set) and the argument handed to setTimeout
TimerIdle == [id |-> "null", args |-> NO_VALUE]
\* a faulty Timer.start: a pending callback is replaced
TimerRestart(t, args) == [id |-> "set", args |-> args]
\* Timer.start(args): a no-op while a callback is pending
TimerStart(t, args) == IF t.id = "null" THEN [id |-> "set", args |-> args] ELSE t
\* Timer.cancel()
TimerCancel(t) == TimerIdle

(***************************************************************************)
(* Win32Dialog (dialog module): the window adapter.  status is "none" (no  *)
(* instance), "mounted" (registered to the manager) or "closed" (the       *)
(* instance was unregistered; the manager may still hold a reference).     *)
(* calls lists the onFocus / onBlur props the instance has called during   *)
(* the event that is being handled.                                        *)
(***************************************************************************)
NoRect == DialogRect(Undef, Undef, Undef, Undef, Undef, Undef, Undef)

\* the instance right after its constructor ran with the rect rc
NewDialog(rc) ==
    [status |-> "mounted", hasFocus |-> FALSE, zIndex |-> 0,
     cursorOnWindow |-> FALSE, cursorOnTitlebar |-> FALSE,
     cursorOnTitlebarButtons |-> FALSE, hoverTitlebarButton |-> NO_VALUE,
     isMaximized |-> FALSE, isMinimized |-> FALSE,
     tooltipOnTitlebarButton |-> NO_VALUE, tooltipOnTitle |-> FALSE,
     tooltipVisible |-> FALSE, activeTitlebarButton |-> NO_VALUE,
     rc |-> rc,
     rcCache |-> [width |-> 0, height |-> 0, top |-> 0, left |-> 0],
     calls |-> <<>>]

NoDialog == [NewDialog(NoRect) EXCEPT !.status = "none"]

\* a faulty updateWindowFocus: a focused window never loses the focus
updateWindowFocusSticky(w, new_focus) ==
    [w EXCEPT !.hasFocus = w.hasFocus \/ new_focus]
\* a faulty updateWindowFocus: the callback is called whatever the focus was
updateWindowFocusEager(w, new_focus) ==
    [w EXCEPT !.hasFocus = new_focus,
              !.calls = Append(w.calls, IF new_focus THEN "onFocus" ELSE "onBlur")]
\* updateWindowFocus(new_focus): the state updater calls onFocus / onBlur when
\* the focus changes
updateWindowFocus(w, new_focus) ==
    IF w.hasFocus # new_focus
    THEN [w EXCEPT !.hasFocus = new_focus,
                   !.calls = Append(w.calls,
                                    IF new_focus THEN "onFocus" ELSE "onBlur")]
    ELSE w
\* a faulty updateWindowZIndex: the z-index is never written
updateWindowZIndexLost(w, new_zindex) == w
updateWindowZIndex(w, new_zindex) == [w EXCEPT !.zIndex = new_zindex]
updateWindowSize(w, cursor_pos, resize_type) ==
    [w EXCEPT !.rc = resizeToCursor(w.rc, cursor_pos, resize_type)]
updateWindowPosition(w, cursor_pos) ==
    [w EXCEPT !.rc = moveToCursor(w.rc, cursor_pos)]
setupCursorOffset(w, cursor_pos, resize_type) ==
    [w EXCEPT !.rc = setCursorOffset(w.rc, cursor_pos, resize_type)]
fixOffScreenMove(w) == [w EXCEPT !.rc = moveWithinViewport(w.rc)]
getCursorState(w, cursor_pos) == getCursorResizeState(w.rc, cursor_pos)

\* showTooltip(cursor_pos, zIndex) -> <<the dialog afterwards, validTooltip>>;
\* overflowing is what isTitleOverflowing() reads from the page
showTooltip(w, overflowing) ==
    IF w.cursorOnTitlebarButtons
    THEN <<[w EXCEPT !.tooltipOnTitlebarButton = w.hoverTitlebarButton,
                     !.tooltipOnTitle = FALSE, !.tooltipVisible = TRUE], TRUE>>
    ELSE IF overflowing
    THEN <<[w EXCEPT !.tooltipOnTitlebarButton = NO_VALUE,
                     !.tooltipOnTitle = TRUE, !.tooltipVisible = TRUE], TRUE>>
    ELSE <<w, FALSE>>

closeTooltip(w) ==
    IF w.tooltipVisible
    THEN [w EXCEPT !.tooltipOnTitlebarButton = NO_VALUE, !.tooltipOnTitle = FALSE,
                   !.tooltipVisible = FALSE]
    ELSE w

\* pushTitlebarButton(): the dialog afterwards; it returns hoverTitlebarButton
pushTitlebarButton(w) ==
    IF w.cursorOnTitlebarButtons
    THEN LET h == IF w.hoverTitlebarButton = NO_VALUE
                  THEN titlebarButtons.maximize ELSE w.hoverTitlebarButton
         IN  [w EXCEPT !.hoverTitlebarButton = h, !.activeTitlebarButton = h]
    ELSE w

releaseTitlebarButton(w) == [w EXCEPT !.activeTitlebarButton = NO_VALUE]

\* maximize(): re-cover the viewport
maximize(w, innerWidth, innerHeight) ==
    [w EXCEPT !.rc = coverViewport(w.rc, innerWidth, innerHeight)]

\* a faulty minimize click: a maximized window is minimized too
clickMinimizeMaximized(w) ==
    LET rc0 == setCursorOffset(w.rc, Undef, Undef)
    IN  IF ~w.isMinimized
        THEN [w EXCEPT
                !.isMinimized = TRUE,
                !.rcCache = [w.rcCache EXCEPT !.width = w.rc.width,
                                              !.height = w.rc.height],
                !.rc = resizeToCursor(rc0,
                          [x |-> rc0.left + rc0.minWidth,
                           y |-> rc0.top + rc0.minHeight],
                          cursorState.bottomright)]
        ELSE [w EXCEPT
                !.isMinimized = FALSE,
                !.rc = resizeToCursor(rc0,
                          [x |-> rc0.left + w.rcCache.width,
                           y |-> rc0.top + w.rcCache.height],
                          cursorState.bottomright)]

\* handleTitlebarButtonClick(minimize)
clickMinimize(w) ==
    IF w.isMaximized THEN w
    ELSE LET rc0 == setCursorOffset(w.rc, Undef, Undef)
         IN  IF ~w.isMinimized
             THEN [w EXCEPT
                     !.isMinimized = TRUE,
                     !.rcCache = [w.rcCache EXCEPT !.width = w.rc.width,
                                                   !.height = w.rc.height],
                     !.rc = resizeToCursor(rc0,
                               [x |-> rc0.left + rc0.minWidth,
                                y |-> rc0.top + rc0.minHeight],
                               cursorState.bottomright)]
             ELSE [w EXCEPT
                     !.isMinimized = FALSE,
                     !.rc = resizeToCursor(rc0,
                               [x |-> rc0.left + w.rcCache.width,
                                y |-> rc0.top + w.rcCache.height],
                               cursorState.bottomright)]

\* a faulty maximize click: the restore does not bring the cached top back
clickMaximizeTopLost(w, innerWidth, innerHeight) ==
    IF w.isMinimized THEN w
    ELSE IF ~w.isMaximized
         THEN [w EXCEPT
                 !.isMaximized = TRUE,
                 !.rcCache = [width |-> w.rc.width, height |-> w.rc.height,
                              top |-> w.rc.top, left |-> w.rc.left],
                 !.rc = coverViewport(w.rc, innerWidth, innerHeight)]
         ELSE [w EXCEPT
                 !.isMaximized = FALSE,
                 !.rc = _update(setCursorOffset(w.rc, Undef, Undef),
                                Num(w.rcCache.left), Undef,
                                Num(w.rcCache.width), Num(w.rcCache.height))]

\* handleTitlebarButtonClick(maximize)
clickMaximize(w, innerWidth, innerHeight) ==
    IF w.isMinimized THEN w
    ELSE IF ~w.isMaximized
         THEN [w EXCEPT
                 !.isMaximized = TRUE,
                 !.rcCache = [width |-> w.rc.width, height |-> w.rc.height,
                              top |-> w.rc.top, left |-> w.rc.left],
                 !.rc = coverViewport(w.rc, innerWidth, innerHeight)]
         ELSE [w EXCEPT
                 !.isMaximized = FALSE,
                 !.rc = _update(setCursorOffset(w.rc, Undef, Undef),
                                Num(w.rcCache.left), Num(w.rcCache.top),
                                Num(w.rcCache.width), Num(w.rcCache.height))]

(***************************************************************************)
(* State.                                                                  *)
(***************************************************************************)
VARIABLES
    rect,                     \* a stand-alone DialogRect (geometry runs)
    rop,                      \* the last DialogRect method called on rect,
                              \* and the resize_type of its gesture
    dlg,                      \* the Win32Dialog instances, by adapter id
    windows,                  \* WindowManager.windows (0 is null)
    zIndexTop,                \* WindowManager.zIndexTop
    currCursor,               \* WindowManager.currCursor
    moveAction,               \* WindowManager.moveAction, by handler name
    pressedButton,            \* WindowManager.pressedButton
    rightClickTitlebar,       \* WindowManager.rightClickTitlebar
    showTooltipTimer,         \* WindowManager.showTooltipTimer
    closeTooltipTimer,        \* WindowManager.closeTooltipTimer
    windowWithVisibleTooltip, \* WindowManager.windowWithVisibleTooltip
    activeWindow,             \* WindowManager.activeWindow
    last                      \* what the last event did (history)

rectVars == <<rect, rop>>
mgrVars == <<dlg, windows, zIndexTop, currCursor, moveAction, pressedButton,
             rightClickTitlebar, showTooltipTimer, closeTooltipTimer,
             windowWithVisibleTooltip, activeWindow, last>>
vars == <<rect, rop, dlg, windows, zIndexTop, currCursor, moveAction,
          pressedButton, rightClickTitlebar, showTooltipTimer,
          closeTooltipTimer, windowWithVisibleTooltip, activeWindow, last>>

\* the adapter ids a run may use
MaxWindows == 3
Adapters == 1..MaxWindows
NULL == 0

\* the history of one event: did the handler throw, which titlebar-button
\* click actions <<adapter, button>> it invoked, and which focus callbacks
\* each dialog called
NoEvent == [threw |-> FALSE, clicks |-> <<>>, calls |-> [a \in Adapters |-> <<>>]]

(***************************************************************************)
(* WindowManager (manager module).  A handler is a function of the manager *)
(* state S (a record of the variables); S.threw records a TypeError, after *)
(* which the rest of the handler does not run.                             *)
(***************************************************************************)
Cur ==
    [dlg |-> dlg, windows |-> windows, zIndexTop |-> zIndexTop,
     currCursor |-> currCursor, moveAction |-> moveAction,
     pressedButton |-> pressedButton, rightClickTitlebar |-> rightClickTitlebar,
     showTooltipTimer |-> showTooltipTimer, closeTooltipTimer |-> closeTooltipTimer,
     windowWithVisibleTooltip |-> windowWithVisibleTooltip,
     activeWindow |-> activeWindow,
     threw |-> FALSE, clicks |-> <<>>]

\* an instance that was unregistered and that no slot of windows refers to
\* any more can never be called again: it is dropped
Collect(S) ==
    [a \in DOMAIN S.dlg |->
        IF S.dlg[a].status = "closed"
           /\ \A i \in 1..Len(S.windows) : S.windows[i] # a
        THEN NoDialog ELSE S.dlg[a]]

Commit(S) ==
    /\ dlg' = [a \in DOMAIN S.dlg |-> [Collect(S)[a] EXCEPT !.calls = <<>>]]
    /\ windows' = S.windows
    /\ zIndexTop' = S.zIndexTop
    /\ currCursor' = S.currCursor
    /\ moveAction' = S.moveAction
    /\ pressedButton' = S.pressedButton
    /\ rightClickTitlebar' = S.rightClickTitlebar
    /\ showTooltipTimer' = S.showTooltipTimer
    /\ closeTooltipTimer' = S.closeTooltipTimer
    /\ windowWithVisibleTooltip' = S.windowWithVisibleTooltip
    /\ activeWindow' = S.activeWindow
    /\ last' = [threw |-> S.threw, clicks |-> S.clicks,
                calls |-> [a \in DOMAIN S.dlg |-> S.dlg[a].calls]]

\* this.windows[i]: NULL for null, for undefined and for an index off the array
At(ws, i) == IF i >= 0 /\ i < Len(ws) THEN ws[i + 1] ELSE NULL
\* this.windows[i] = v, which extends the array when i is its length
SetAt(ws, i, v) == IF i < Len(ws) THEN [ws EXCEPT ![i + 1] = v] ELSE Append(ws, v)

Throw(S) == [S EXCEPT !.threw = TRUE]
\* call method F on this.windows[i]; a null or undefined receiver throws
OnWin(S, i, F(_)) ==
    LET a == At(S.windows, i)
    IN  IF S.threw THEN S
        ELSE IF a = NULL THEN Throw(S)
        ELSE [S EXCEPT !.dlg[a] = F(S.dlg[a])]

\* the loop of _bringWindowToTop, from index i
RECURSIVE bringLoop(_, _, _)
bringLoop(S, i, topZIndex) ==
    IF S.threw \/ i >= topZIndex THEN S
    ELSE LET topWindow == At(S.windows, i)
             ws == SetAt(SetAt(S.windows, i, At(S.windows, i + 1)), i + 1, topWindow)
             S1 == [S EXCEPT !.windows = ws]
             lower(w) == updateWindowFocus(updateWindowZIndex(w, i), FALSE)
         IN  bringLoop(OnWin(S1, i, lower), i + 1, topZIndex)

\* a faulty _bringWindowToTop: the window changes places with the top window
_bringWindowToTopSwap(S, zIndex) ==
    LET topZIndex == S.zIndexTop - 1
        topWindow == At(S.windows, zIndex)
        other     == At(S.windows, topZIndex)
        ws == SetAt(SetAt(S.windows, zIndex, other), topZIndex, topWindow)
        lower(w) == updateWindowFocus(updateWindowZIndex(w, zIndex), FALSE)
        S1 == IF zIndex < topZIndex
              THEN OnWin([S EXCEPT !.windows = ws], zIndex, lower)
              ELSE S
        raise(w) == updateWindowFocus(updateWindowZIndex(w, topZIndex), TRUE)
    IN  IF S1.threw THEN S1
        ELSE IF topWindow = NULL THEN Throw(S1)
        ELSE [S1 EXCEPT !.dlg[topWindow] = raise(S1.dlg[topWindow])]

\* _bringWindowToTop(zIndex)
_bringWindowToTop(S, zIndex) ==
    LET topZIndex == S.zIndexTop - 1
        topWindow == At(S.windows, zIndex)
        S1 == bringLoop(S, zIndex, topZIndex)
        raise(w) == updateWindowFocus(updateWindowZIndex(w, topZIndex), TRUE)
    IN  IF S1.threw THEN S1
        ELSE IF topWindow = NULL THEN Throw(S1)
        ELSE [S1 EXCEPT !.dlg[topWindow] = raise(S1.dlg[topWindow])]

\* a faulty registerWindow: the previous top window keeps the focus
registerWindowNoBlur(S, a) ==
    LET S2 == [S EXCEPT !.windows = SetAt(S.windows, S.zIndexTop, a)]
        reg(w) == updateWindowZIndex(updateWindowFocus(w, TRUE), S2.zIndexTop)
    IN  [S2 EXCEPT !.dlg[a] = reg(S2.dlg[a]), !.zIndexTop = S2.zIndexTop + 1]

\* registerWindow(w): the new top index is returned in zIndexTop - 1
registerWindow(S, a) ==
    LET lower(w) == updateWindowFocus(w, FALSE)
        S1 == IF S.zIndexTop > 0 THEN OnWin(S, S.zIndexTop - 1, lower) ELSE S
        S2 == [S1 EXCEPT !.windows = SetAt(S1.windows, S1.zIndexTop, a)]
        reg(w) == updateWindowZIndex(updateWindowFocus(w, TRUE), S2.zIndexTop)
    IN  IF S1.threw THEN S1
        ELSE [S2 EXCEPT !.dlg[a] = reg(S2.dlg[a]), !.zIndexTop = S2.zIndexTop + 1]

\* a faulty unregisterWindow: the index zIndexTop passes the range test
unregisterWindowLoose(S, zIndex) ==
    IF zIndex >= 0 /\ zIndex <= S.zIndexTop
    THEN LET S1 == _bringWindowToTop(S, zIndex)
         IN  IF S1.threw THEN S1
             ELSE [S1 EXCEPT !.windows = SetAt(S1.windows, S1.zIndexTop, NULL),
                             !.zIndexTop = S1.zIndexTop - 1]
    ELSE S

\* unregisterWindow(zIndex)
unregisterWindow(S, zIndex) ==
    IF zIndex >= 0 /\ zIndex < S.zIndexTop
    THEN LET S1 == _bringWindowToTop(S, zIndex)
         IN  IF S1.threw THEN S1
             ELSE [S1 EXCEPT !.windows = SetAt(S1.windows, S1.zIndexTop, NULL),
                             !.zIndexTop = S1.zIndexTop - 1]
    ELSE S

\* _resetCursor()
_resetCursor(S) == [S EXCEPT !.currCursor = cursorState.regular]

\* _resetTooltip()
_resetTooltip(S) ==
    LET S1 == [S EXCEPT !.showTooltipTimer = TimerCancel(S.showTooltipTimer),
                        !.closeTooltipTimer = TimerCancel(S.closeTooltipTimer)]
        S2 == OnWin(S1, S1.windowWithVisibleTooltip, closeTooltip)
    IN  IF S.threw THEN S
        ELSE IF S1.windowWithVisibleTooltip # NO_VALUE
        THEN IF S2.threw THEN S2
             ELSE [S2 EXCEPT !.windowWithVisibleTooltip = NO_VALUE]
        ELSE S1

\* a faulty _showTooltip: the window is recorded and the close timer started
\* whatever showTooltip returns
_showTooltipUnchecked(S, zIndex, overflowing) ==
    LET a == At(S.windows, zIndex)
        r == showTooltip(S.dlg[a], overflowing)
    IN  IF S.threw THEN S
        ELSE IF a = NULL THEN Throw(S)
        ELSE [S EXCEPT !.dlg[a] = r[1], !.windowWithVisibleTooltip = zIndex,
                       !.closeTooltipTimer = TimerStart(S.closeTooltipTimer, NO_VALUE)]

\* _showTooltip(zIndex)
_showTooltip(S, zIndex, overflowing) ==
    LET a == At(S.windows, zIndex)
        r == showTooltip(S.dlg[a], overflowing)
    IN  IF S.threw THEN S
        ELSE IF a = NULL THEN Throw(S)
        ELSE IF r[2]
        THEN [S EXCEPT !.dlg[a] = r[1], !.windowWithVisibleTooltip = zIndex,
                       !.closeTooltipTimer = TimerStart(S.closeTooltipTimer, NO_VALUE)]
        ELSE S

\* a faulty hoverTooltip: a changed target waits for the show timer again
hoverTooltipRearm(S, zIndex, sameTarget, overflowing) ==
    IF S.windowWithVisibleTooltip = zIndex /\ sameTarget
    THEN S
    ELSE LET S1 == _resetTooltip(S)
         IN  IF S1.threw THEN S1
             ELSE [S1 EXCEPT !.showTooltipTimer = TimerStart(S1.showTooltipTimer, zIndex)]

\* the tooltip part of _handleHoverOnWindow for one tooltip target: sameTarget
\* says the tooltip shown on this window is already on that target
hoverTooltip(S, zIndex, sameTarget, overflowing) ==
    IF S.windowWithVisibleTooltip = zIndex
    THEN IF ~sameTarget
         THEN _showTooltip(_resetTooltip(S), zIndex, overflowing)
         ELSE S
    ELSE LET S1 == _resetTooltip(S)
         IN  IF S1.threw THEN S1
             ELSE [S1 EXCEPT !.showTooltipTimer = TimerStart(S1.showTooltipTimer, zIndex)]

\* _handleHoverOnWindow(ev, zIndex)
_handleHoverOnWindow(S, cursorPos, zIndex, overflowing) ==
    LET a   == At(S.windows, zIndex)
        win == S.dlg[a]
        windowCursor == getCursorState(win, cursorPos)
        S1 == IF ~win.isMaximized /\ ~win.isMinimized
              THEN [S EXCEPT !.currCursor = windowCursor]
              ELSE S
        S2 == _resetCursor(S1)
        h  == IF win.hoverTitlebarButton = NO_VALUE
              THEN titlebarButtons.maximize ELSE win.hoverTitlebarButton
        S3 == [S2 EXCEPT !.dlg[a].hoverTitlebarButton = h]
    IN  IF a = NULL THEN Throw(S)
        ELSE IF windowCursor = cursorState.regular /\ win.cursorOnTitlebar
        THEN IF ~win.cursorOnTitlebarButtons /\ overflowing
             THEN hoverTooltip(S2, zIndex, win.tooltipOnTitle, overflowing)
             ELSE IF win.cursorOnTitlebarButtons
             THEN hoverTooltip(S3, zIndex, win.tooltipOnTitlebarButton = h, overflowing)
             ELSE _resetTooltip(S2)
        ELSE _resetTooltip(S1)

\* a faulty scan: the highest matching index wins
FirstHoveredTopmost(S) ==
    LET hit == {i \in 0..(S.zIndexTop - 1) :
                  \/ At(S.windows, i) = NULL
                  \/ S.dlg[At(S.windows, i)].cursorOnWindow}
    IN  IF hit = {} THEN NO_VALUE
        ELSE CHOOSE i \in hit : \A j \in hit : i >= j

\* the scan of _defaultMouseMove and _onMouseDown: the lowest index below
\* zIndexTop whose window has cursorOnWindow set, or NO_VALUE; a null slot
\* met before a match throws, which the scan reports as that slot
FirstHovered(S) ==
    LET hit == {i \in 0..(S.zIndexTop - 1) :
                  \/ At(S.windows, i) = NULL
                  \/ S.dlg[At(S.windows, i)].cursorOnWindow}
    IN  IF hit = {} THEN NO_VALUE
        ELSE CHOOSE i \in hit : \A j \in hit : i <= j

\* _defaultMouseMove(ev)
_defaultMouseMove(S, cursorPos, overflowing) ==
    LET i == FirstHovered(S)
    IN  IF i # NO_VALUE
        THEN _handleHoverOnWindow(S, cursorPos, i, overflowing)
        ELSE _resetCursor(_resetTooltip(S))

\* _moveWindow(ev)
_moveWindow(S, cursorPos) ==
    LET move(w) == updateWindowPosition(w, cursorPos)
    IN  OnWin(S, S.activeWindow, move)

\* a faulty _resizeWindow: the edge is classified again at every move
_resizeWindowTracking(S, cursorPos) ==
    LET a == At(S.windows, S.activeWindow)
        c == IF a = NULL THEN S.currCursor ELSE getCursorState(S.dlg[a], cursorPos)
        size(w) == updateWindowSize(w, cursorPos, c)
    IN  OnWin([S EXCEPT !.currCursor = c], S.activeWindow, size)

\* _resizeWindow(ev)
_resizeWindow(S, cursorPos) ==
    LET size(w) == updateWindowSize(w, cursorPos, S.currCursor)
    IN  OnWin(S, S.activeWindow, size)

\* _titlebarButtonMouseMove()
_titlebarButtonMouseMove(S) ==
    LET a == At(S.windows, S.activeWindow)
    IN  IF a = NULL THEN Throw(S)
        ELSE IF S.dlg[a].hoverTitlebarButton # S.pressedButton
        THEN OnWin(S, S.activeWindow, releaseTitlebarButton)
        ELSE OnWin(S, S.activeWindow, pushTitlebarButton)

\* _onMouseMove(ev): calls the handler moveAction names
_onMouseMove(S, cursorPos, overflowing) ==
    CASE S.moveAction = "_defaultMouseMove" -> _defaultMouseMove(S, cursorPos, overflowing)
      [] S.moveAction = "_moveWindow" -> _moveWindow(S, cursorPos)
      [] S.moveAction = "_resizeWindow" -> _resizeWindow(S, cursorPos)
      [] S.moveAction = "_titlebarButtonMouseMove" -> _titlebarButtonMouseMove(S)
      [] OTHER -> S

\* a faulty handleTitlebarButtonClick: the close click ignores onExit
handleTitlebarButtonClickNoVeto(S, a, button, innerWidth, innerHeight, exitOk) ==
    LET S1 == [S EXCEPT !.clicks = Append(S.clicks, <<a, button>>)]
    IN  CASE button = titlebarButtons.minimize ->
               [S1 EXCEPT !.dlg[a] = clickMinimize(S1.dlg[a])]
          [] button = titlebarButtons.maximize ->
               [S1 EXCEPT !.dlg[a] = clickMaximize(S1.dlg[a], innerWidth, innerHeight)]
          [] button = titlebarButtons.close ->
               LET S2 == unregisterWindow(S1, S1.dlg[a].zIndex)
               IN  IF S2.threw THEN S2
                   ELSE [S2 EXCEPT !.dlg[a].status = "closed"]
          [] OTHER -> S1

\* win.handleTitlebarButtonClick(button) as _onMouseUp and _onDoubleClick call
\* it on adapter a; exitOk is what "no onExit prop, or onExit() is truthy" gives
handleTitlebarButtonClick(S, a, button, innerWidth, innerHeight, exitOk) ==
    LET S1 == [S EXCEPT !.clicks = Append(S.clicks, <<a, button>>)]
    IN  CASE button = titlebarButtons.minimize ->
               [S1 EXCEPT !.dlg[a] = clickMinimize(S1.dlg[a])]
          [] button = titlebarButtons.maximize ->
               [S1 EXCEPT !.dlg[a] = clickMaximize(S1.dlg[a], innerWidth, innerHeight)]
          [] button = titlebarButtons.close ->
               IF exitOk
               THEN LET S2 == unregisterWindow(S1, S1.dlg[a].zIndex)
                    IN  IF S2.threw THEN S2
                        ELSE [S2 EXCEPT !.dlg[a].status = "closed"]
               ELSE S1
          [] OTHER -> S1

\* a faulty _onMouseUp: the left release clicks the pressed button wherever
\* the pointer is
_onMouseUpAlwaysClicks(S, button, innerWidth, innerHeight, exitOk) ==
    LET a   == At(S.windows, S.activeWindow)
        S1 == IF button = 0
              THEN IF S.moveAction = "_moveWindow"
                   THEN OnWin(S, S.activeWindow, fixOffScreenMove)
                   ELSE IF S.moveAction = "_titlebarButtonMouseMove"
                   THEN LET R == OnWin(S, S.activeWindow, releaseTitlebarButton)
                        IN  IF R.threw THEN R
                            ELSE handleTitlebarButtonClick(R, a,
                                     R.pressedButton, innerWidth, innerHeight, exitOk)
                   ELSE S
              ELSE IF button = 2 /\ S.rightClickTitlebar
              THEN IF a = NULL THEN Throw(S)
                   ELSE [S EXCEPT !.rightClickTitlebar = FALSE]
              ELSE S
    IN  IF S1.threw THEN S1
        ELSE [S1 EXCEPT !.activeWindow = NO_VALUE, !.moveAction = "_defaultMouseMove"]

\* _onMouseUp(ev)
_onMouseUp(S, button, innerWidth, innerHeight, exitOk) ==
    LET a   == At(S.windows, S.activeWindow)
        S1 == IF button = 0
              THEN IF S.moveAction = "_moveWindow"
                   THEN OnWin(S, S.activeWindow, fixOffScreenMove)
                   ELSE IF S.moveAction = "_titlebarButtonMouseMove"
                   THEN LET R == OnWin(S, S.activeWindow, releaseTitlebarButton)
                        IN  IF R.threw THEN R
                            ELSE IF R.dlg[a].hoverTitlebarButton = R.pressedButton
                            THEN handleTitlebarButtonClick(R, a,
                                     R.pressedButton, innerWidth, innerHeight, exitOk)
                            ELSE R
                   ELSE S
              ELSE IF button = 2 /\ S.rightClickTitlebar
              THEN IF a = NULL THEN Throw(S)
                   ELSE [S EXCEPT !.rightClickTitlebar = FALSE]
              ELSE S
    IN  IF S1.threw THEN S1
        ELSE [S1 EXCEPT !.activeWindow = NO_VALUE, !.moveAction = "_defaultMouseMove"]

\* the scan loop body without the isMaximized / isMinimized tests
mouseDownOnAnyShape(S, i, button, cursorPos) ==
    LET a   == At(S.windows, i)
        win == S.dlg[a]
        S1 == IF button = 0
              THEN IF S.currCursor = cursorState.regular
                   THEN IF win.cursorOnTitlebar
                        THEN IF win.cursorOnTitlebarButtons
                             THEN [S EXCEPT
                                     !.dlg[a] = pushTitlebarButton(win),
                                     !.pressedButton =
                                         pushTitlebarButton(win).hoverTitlebarButton,
                                     !.moveAction = "_titlebarButtonMouseMove"]
                             ELSE IF TRUE
                                  THEN [S EXCEPT
                                          !.moveAction = "_moveWindow",
                                          !.dlg[a] = setupCursorOffset(win,
                                                        Num(cursorPos), Undef)]
                                  ELSE S
                        ELSE S
                   ELSE IF TRUE
                        THEN [S EXCEPT
                                !.moveAction = "_resizeWindow",
                                !.dlg[a] = setupCursorOffset(win, Num(cursorPos),
                                                             Num(S.currCursor))]
                        ELSE S
              ELSE IF button = 2
                      /\ ~win.cursorOnTitlebarButtons /\ win.cursorOnTitlebar
              THEN [S EXCEPT !.rightClickTitlebar = TRUE, !.moveAction = "noop"]
              ELSE S
    IN  IF a = NULL THEN Throw(S)
        ELSE [S1 EXCEPT !.activeWindow = i]

\* the body of the scan loop of _onMouseDown for the matching window i
mouseDownOn(S, i, button, cursorPos) ==
    LET a   == At(S.windows, i)
        win == S.dlg[a]
        S1 == IF button = 0
              THEN IF S.currCursor = cursorState.regular
                   THEN IF win.cursorOnTitlebar
                        THEN IF win.cursorOnTitlebarButtons
                             THEN [S EXCEPT
                                     !.dlg[a] = pushTitlebarButton(win),
                                     !.pressedButton =
                                         pushTitlebarButton(win).hoverTitlebarButton,
                                     !.moveAction = "_titlebarButtonMouseMove"]
                             ELSE IF ~win.isMaximized
                                  THEN [S EXCEPT
                                          !.moveAction = "_moveWindow",
                                          !.dlg[a] = setupCursorOffset(win,
                                                        Num(cursorPos), Undef)]
                                  ELSE S
                        ELSE S
                   ELSE IF ~win.isMaximized /\ ~win.isMinimized
                        THEN [S EXCEPT
                                !.moveAction = "_resizeWindow",
                                !.dlg[a] = setupCursorOffset(win, Num(cursorPos),
                                                             Num(S.currCursor))]
                        ELSE S
              ELSE IF button = 2
                      /\ ~win.cursorOnTitlebarButtons /\ win.cursorOnTitlebar
              THEN [S EXCEPT !.rightClickTitlebar = TRUE, !.moveAction = "noop"]
              ELSE S
    IN  IF a = NULL THEN Throw(S)
        ELSE [S1 EXCEPT !.activeWindow = i]

\* a faulty _onMouseDown: the window the pointer is on is not raised
_onMouseDownNoRaise(S, button, cursorPos) ==
    LET S0 == _resetTooltip([S EXCEPT
                               !.showTooltipTimer = TimerCancel(S.showTooltipTimer)])
        i  == FirstHovered(S0)
        S1 == IF i # NO_VALUE THEN mouseDownOn(S0, i, button, cursorPos) ELSE S0
        lower(w) == updateWindowFocus(w, FALSE)
    IN  IF S0.threw THEN S0
        ELSE IF S1.threw THEN S1
        ELSE IF S1.activeWindow # NO_VALUE THEN S1
        ELSE OnWin(S1, S1.zIndexTop - 1, lower)

\* a faulty _onMouseDown: the press leaves the tooltip and its timers alone
_onMouseDownKeepsTooltip(S, button, cursorPos) ==
    LET i  == FirstHovered(S)
        S1 == IF i # NO_VALUE THEN mouseDownOn(S, i, button, cursorPos) ELSE S
        lower(w) == updateWindowFocus(w, FALSE)
    IN  IF S1.threw THEN S1
        ELSE IF S1.activeWindow # NO_VALUE
        THEN LET S2 == _bringWindowToTop(S1, S1.activeWindow)
             IN  IF S2.threw THEN S2
                 ELSE [S2 EXCEPT !.activeWindow = S2.zIndexTop - 1]
        ELSE OnWin(S1, S1.zIndexTop - 1, lower)

\* _onMouseDown(ev)
_onMouseDown(S, button, cursorPos) ==
    LET S0 == _resetTooltip([S EXCEPT
                               !.showTooltipTimer = TimerCancel(S.showTooltipTimer)])
        i  == FirstHovered(S0)
        S1 == IF i # NO_VALUE THEN mouseDownOn(S0, i, button, cursorPos) ELSE S0
        lower(w) == updateWindowFocus(w, FALSE)
    IN  IF S0.threw THEN S0
        ELSE IF S1.threw THEN S1
        ELSE IF S1.activeWindow # NO_VALUE
        THEN LET S2 == _bringWindowToTop(S1, S1.activeWindow)
             IN  IF S2.threw THEN S2
                 ELSE [S2 EXCEPT !.activeWindow = S2.zIndexTop - 1]
        ELSE OnWin(S1, S1.zIndexTop - 1, lower)

\* the loop of _onDoubleClick, from index i
RECURSIVE doubleClickLoop(_, _, _, _)
doubleClickLoop(S, i, innerWidth, innerHeight) ==
    IF S.threw \/ i >= S.zIndexTop THEN S
    ELSE LET a == At(S.windows, i)
         IN  IF a = NULL THEN Throw(S)
             ELSE IF S.dlg[a].cursorOnTitlebar /\ ~S.dlg[a].cursorOnTitlebarButtons
             THEN doubleClickLoop(
                      handleTitlebarButtonClick(_resetCursor(S), a,
                          titlebarButtons.maximize, innerWidth, innerHeight, TRUE),
                      i + 1, innerWidth, innerHeight)
             ELSE doubleClickLoop(S, i + 1, innerWidth, innerHeight)

\* _onDoubleClick(ev)
_onDoubleClick(S, button, innerWidth, innerHeight) ==
    IF button # 0 THEN S ELSE doubleClickLoop(S, 0, innerWidth, innerHeight)

\* _onResize()
_onResize(S, innerWidth, innerHeight) ==
    LET a == At(S.windows, S.zIndexTop - 1)
        cover(w) == maximize(w, innerWidth, innerHeight)
    IN  IF a = NULL THEN Throw(S)
        ELSE IF S.dlg[a].isMaximized THEN OnWin(S, S.zIndexTop - 1, cover)
        ELSE S

(***************************************************************************)
(* Actions: the mount / unmount of a dialog, the page's pointer events,    *)
(* the dialog's own mouseenter / mouseleave handlers and the timers.       *)
(***************************************************************************)
\* the events of the page the manager listens to: the constructor adds the
\* five listeners, and nothing in the manager removes a listener, so the set
\* is the same in every state
listeners == {"mousemove", "mouseup", "mousedown", "dblclick", "resize"}

\* the live registry positions holding adapter a
PositionsOf(ws, top, a) == {i \in 0..(top - 1) : At(ws, i) = a}
IsRegistered(a) == PositionsOf(windows, zIndexTop, a) # {}
Registered == {a \in Adapters : IsRegistered(a)}

\* componentDidMount of a new Win32Dialog built with the rect rc.  The id a is
\* free: no live instance has it, and no slot but the one registerWindow
\* overwrites refers to it
Mount(a, rc) ==
    /\ dlg[a].status # "mounted"
    /\ \A i \in 0..(Len(windows) - 1) : At(windows, i) = a => i = zIndexTop
    /\ \A b \in Adapters : b < a => dlg[b].status = "mounted"
    /\ Commit(registerWindow([Cur EXCEPT !.dlg[a] = NewDialog(rc)], a))
    /\ UNCHANGED rectVars

\* componentWillUnmount of the dialog a
Unmount(a) ==
    /\ dlg[a].status = "mounted"
    /\ LET S == unregisterWindow(Cur, dlg[a].zIndex)
       IN  Commit([S EXCEPT !.dlg[a].status = "closed"])
    /\ UNCHANGED rectVars

Parts == {"window", "titlebar", "buttons", "minimize", "maximize", "close"}
ButtonOf(part) ==
    CASE part = "minimize" -> titlebarButtons.minimize
      [] part = "maximize" -> titlebarButtons.maximize
      [] part = "close" -> titlebarButtons.close
      [] OTHER -> NO_VALUE

\* the onMouseEnter handler of a part of the dialog a; the parts nest, so the
\* pointer enters them from the outside in
MouseEnter(a, part) ==
    LET w == dlg[a]
    IN  /\ w.status = "mounted"
        /\ CASE part = "window" ->
                  /\ ~w.cursorOnWindow
                  /\ dlg' = [dlg EXCEPT ![a].cursorOnWindow = TRUE]
             [] part = "titlebar" ->
                  /\ w.cursorOnWindow /\ ~w.cursorOnTitlebar
                  /\ dlg' = [dlg EXCEPT ![a].cursorOnTitlebar = TRUE]
             [] part = "buttons" ->
                  /\ w.cursorOnTitlebar /\ ~w.cursorOnTitlebarButtons
                  /\ dlg' = [dlg EXCEPT ![a].cursorOnTitlebarButtons = TRUE]
             [] OTHER ->
                  /\ w.cursorOnTitlebarButtons
                  /\ w.hoverTitlebarButton # ButtonOf(part)
                  /\ dlg' = [dlg EXCEPT ![a].hoverTitlebarButton = ButtonOf(part)]
        /\ last' = NoEvent
        /\ UNCHANGED <<rectVars, windows, zIndexTop, currCursor, moveAction,
                       pressedButton, rightClickTitlebar, showTooltipTimer,
                       closeTooltipTimer, windowWithVisibleTooltip, activeWindow>>

\* the onMouseLeave handler of a part of the dialog a; the pointer leaves the
\* parts from the inside out.  A hoverTitlebarButton the pointer never entered
\* (the manager's own default, maximize) survives the leave of the button area
MouseLeave(a, part) ==
    LET w == dlg[a]
    IN  /\ w.status = "mounted"
        /\ CASE part = "window" ->
                  /\ w.cursorOnWindow /\ ~w.cursorOnTitlebar
                  /\ dlg' = [dlg EXCEPT ![a].cursorOnWindow = FALSE]
             [] part = "titlebar" ->
                  /\ w.cursorOnTitlebar /\ ~w.cursorOnTitlebarButtons
                  /\ dlg' = [dlg EXCEPT ![a].cursorOnTitlebar = FALSE]
             [] part = "buttons" ->
                  /\ w.cursorOnTitlebarButtons
                  /\ w.hoverTitlebarButton \in {NO_VALUE, titlebarButtons.maximize}
                  /\ dlg' = [dlg EXCEPT ![a].cursorOnTitlebarButtons = FALSE]
             [] OTHER ->
                  /\ w.cursorOnTitlebarButtons
                  /\ w.hoverTitlebarButton = ButtonOf(part)
                  /\ dlg' = [dlg EXCEPT ![a].hoverTitlebarButton = NO_VALUE]
        /\ last' = NoEvent
        /\ UNCHANGED <<rectVars, windows, zIndexTop, currCursor, moveAction,
                       pressedButton, rightClickTitlebar, showTooltipTimer,
                       closeTooltipTimer, windowWithVisibleTooltip, activeWindow>>

\* a mousemove event at cursorPos
MouseMove(cursorPos, overflowing) ==
    /\ "mousemove" \in listeners
    /\ Commit(_onMouseMove(Cur, cursorPos, overflowing))
    /\ UNCHANGED rectVars

\* a mousedown event
MouseDown(button, cursorPos) ==
    /\ "mousedown" \in listeners
    /\ Commit(_onMouseDown(Cur, button, cursorPos))
    /\ UNCHANGED rectVars

\* a mouseup event
MouseUp(button, innerWidth, innerHeight, exitOk) ==
    /\ "mouseup" \in listeners
    /\ Commit(_onMouseUp(Cur, button, innerWidth, innerHeight, exitOk))
    /\ UNCHANGED rectVars

\* a dblclick event
DoubleClick(button, innerWidth, innerHeight) ==
    /\ "dblclick" \in listeners
    /\ Commit(_onDoubleClick(Cur, button, innerWidth, innerHeight))
    /\ UNCHANGED rectVars

\* a resize event of the viewport
Resize(innerWidth, innerHeight) ==
    /\ "resize" \in listeners
    /\ Commit(_onResize(Cur, innerWidth, innerHeight))
    /\ UNCHANGED rectVars

\* Timer._stub of the show timer: the timeout fires
ShowTimerFires(overflowing) ==
    /\ showTooltipTimer.id = "set"
    /\ Commit(_showTooltip([Cur EXCEPT !.showTooltipTimer = TimerIdle],
                           showTooltipTimer.args, overflowing))
    /\ UNCHANGED rectVars

\* Timer._stub of the close timer: the timeout fires
CloseTimerFires ==
    /\ closeTooltipTimer.id = "set"
    /\ Commit(_resetTooltip([Cur EXCEPT !.closeTooltipTimer = TimerIdle]))
    /\ UNCHANGED rectVars

(***************************************************************************)
(* The state after the module was loaded: the WindowManager constructor    *)
(* ran, no dialog is mounted.                                              *)
(***************************************************************************)
Buttons == {0, 2}
Point(x, y) == [x |-> x, y |-> y]

\* the WindowManager constructor
MgrInit ==
    /\ dlg = [a \in Adapters |-> NoDialog]
    /\ windows = <<>>
    /\ zIndexTop = 0
    /\ currCursor = cursorState.regular
    /\ moveAction = "_defaultMouseMove"
    /\ pressedButton = -1
    /\ rightClickTitlebar = FALSE
    /\ showTooltipTimer = TimerIdle
    /\ closeTooltipTimer = TimerIdle
    /\ windowWithVisibleTooltip = NO_VALUE
    /\ activeWindow = NO_VALUE
    /\ last = NoEvent

Init ==
    /\ rect = NoRect
    /\ rop = [op |-> "new", type |-> NO_VALUE]
    /\ MgrInit

(***************************************************************************)
(* RectSpec: one DialogRect on its own.  It is built from bounded          *)
(* constructor arguments; then one gesture runs on it as the manager runs  *)
(* it: setCursorOffset at the press, then resizeToCursor with the resize   *)
(* type of the press, or moveToCursor and a final moveWithinViewport; or   *)
(* the rect at rest is asked for the cursor state at a pointer position.   *)
(***************************************************************************)
\* x / y and width / height arguments of the constructor; the minimum size
\* argument 1 makes the minimum width and height 1 + 2 * borderWidth = 5
InitPositions == {Undef, Num(0), Num(-4), Num(3)}
InitSizes == {Undef, Num(8)}
RectPoints ==
    {Point(-3, -3), Point(0, 2), Point(2, 0), Point(5, 5), Point(7, 3),
     Point(MaxCoord, MaxCoord)}

RectInit ==
    /\ rect \in {DialogRect(x, y, w, h, Num(1), Num(1), Undef) :
                    x \in InitPositions, y \in InitPositions,
                    w \in InitSizes, h \in InitSizes}
    /\ rop = [op |-> "new", type |-> NO_VALUE]
    /\ MgrInit

\* rc.setCursorOffset(cursor_pos, resize_type) at the press
RectSetCursorOffset(p, e) ==
    /\ rop.op = "new"
    /\ rect' = setCursorOffset(rect, Num(p), e)
    /\ rop' = [op |-> "setCursorOffset",
               type |-> IF e = Undef THEN NO_VALUE ELSE e[1]]
    /\ UNCHANGED mgrVars

\* rc.resizeToCursor(cursor_pos, resize_type) during a resize gesture
RectResize(p) ==
    /\ rop.op \in {"setCursorOffset", "resizeToCursor"}
    /\ rop.type \in ResizeStates
    /\ rect' = resizeToCursor(rect, p, rop.type)
    /\ rop' = [rop EXCEPT !.op = "resizeToCursor"]
    /\ UNCHANGED mgrVars

\* rc.moveToCursor(cursor_pos) during a move gesture
RectMove(p) ==
    /\ rop.op \in {"setCursorOffset", "moveToCursor"}
    /\ rop.type = NO_VALUE
    /\ rect' = moveToCursor(rect, p)
    /\ rop' = [rop EXCEPT !.op = "moveToCursor"]
    /\ UNCHANGED mgrVars

\* rc.moveWithinViewport() at the end of a move gesture
RectMoveWithinViewport ==
    /\ rop.op \in {"setCursorOffset", "moveToCursor"}
    /\ rop.type = NO_VALUE
    /\ rect' = moveWithinViewport(rect)
    /\ rop' = [rop EXCEPT !.op = "moveWithinViewport"]
    /\ UNCHANGED mgrVars

\* rc.getCursorResizeState(cursor_pos) while no gesture runs
RectClassify(p) ==
    /\ rop.op = "new"
    /\ rect' = rect
    /\ rop' = [op |-> "getCursorResizeState", type |-> getCursorResizeState(rect, p)]
    /\ UNCHANGED mgrVars

RectNext ==
    \/ \E p \in RectPoints, e \in {Undef} \cup {Num(t) : t \in ResizeStates} :
          RectSetCursorOffset(p, e)
    \/ \E p \in RectPoints : RectResize(p)
    \/ \E p \in RectPoints : RectMove(p)
    \/ RectMoveWithinViewport
    \/ \E p \in RectPoints : RectClassify(p)

RectSpec == RectInit /\ [][RectNext]_vars

\* the pointer is over no other dialog than a
OnlyOver(a) == \A b \in Adapters \ {a} :
                  dlg[b].status = "mounted" => ~dlg[b].cursorOnWindow

(***************************************************************************)
(* Spec: the registry.  Up to MaxWindows dialogs with the default props    *)
(* are mounted and unmounted; the pointer is over one dialog at a time, on *)
(* its body or its titlebar, and every pointer event arrives at one        *)
(* position, the top-left corner of a dialog in its initial place.         *)
(***************************************************************************)
CornerPoint == Point(1, 1)
Viewport == [innerWidth |-> 200, innerHeight |-> 100]
BodyParts == {"window", "titlebar"}

Next ==
    \/ \E a \in Adapters : Mount(a, NoRect)
    \/ \E a \in Adapters : Unmount(a)
    \/ \E a \in Adapters, part \in BodyParts : OnlyOver(a) /\ MouseEnter(a, part)
    \/ \E a \in Adapters, part \in BodyParts : MouseLeave(a, part)
    \/ MouseMove(CornerPoint, FALSE)
    \/ \E b \in Buttons : MouseDown(b, CornerPoint)
    \/ \E b \in Buttons :
          MouseUp(b, Viewport.innerWidth, Viewport.innerHeight, TRUE)

Spec == Init /\ [][Next]_vars

(***************************************************************************)
(* SpecDbl: the registry under clicks and double clicks.  As Spec, with    *)
(* the dblclick event and without the mousemove event.                     *)
(***************************************************************************)
NextDbl ==
    \/ \E a \in Adapters : Mount(a, NoRect)
    \/ \E a \in Adapters : Unmount(a)
    \/ \E a \in Adapters, part \in BodyParts : OnlyOver(a) /\ MouseEnter(a, part)
    \/ \E a \in Adapters, part \in BodyParts : MouseLeave(a, part)
    \/ \E b \in Buttons : MouseDown(b, CornerPoint)
    \/ \E b \in Buttons :
          MouseUp(b, Viewport.innerWidth, Viewport.innerHeight, TRUE)
    \/ \E b \in Buttons : DoubleClick(b, Viewport.innerWidth, Viewport.innerHeight)

SpecDbl == Init /\ [][NextDbl]_vars

(***************************************************************************)
(* GeoSpec: one dialog, moved and maximized.  A dialog with the minimum    *)
(* size 5 x 5 is mounted, 12 x 12 at (1, 1) or 6 x 12 at (-5, 7); the      *)
(* pointer events arrive at the positions GeoPoints, a press on the dialog *)
(* at a position inside its rect; the pointer moves during sessions only,  *)
(* so a left press on the titlebar starts a move; double clicks maximize   *)
(* and restore the dialog, and the viewport is one of GeoViewports.        *)
(***************************************************************************)
GeoRects ==
    {DialogRect(Undef, Undef, Num(12), Num(12), Num(1), Num(1), Undef),
     DialogRect(Num(-5), Num(7), Num(6), Num(12), Num(1), Num(1), Undef)}
GeoPoints ==
    {Point(-5, -5), Point(1, 1), Point(7, 7), Point(13, 13), Point(7, -5)}
GeoViewports == {[innerWidth |-> 19, innerHeight |-> 19],
                 [innerWidth |-> 25, innerHeight |-> 13]}

\* the page's hit test: a dialog the pointer is on has p inside its rect
Hit(p) ==
    \A a \in Adapters :
        (dlg[a].status = "mounted" /\ dlg[a].cursorOnWindow) =>
            /\ isBetween(p.x, dlg[a].rc.left, dlg[a].rc.right)
            /\ isBetween(p.y, dlg[a].rc.top, dlg[a].rc.bottom)

GeoNext ==
    \/ \E rc \in GeoRects : Mount(1, rc)
    \/ \E part \in BodyParts : MouseEnter(1, part)
    \/ \E part \in BodyParts : MouseLeave(1, part)
    \/ \E p \in GeoPoints :
          moveAction # "_defaultMouseMove" /\ MouseMove(p, FALSE)
    \/ \E b \in Buttons, p \in GeoPoints : Hit(p) /\ MouseDown(b, p)
    \/ \E b \in Buttons, v \in GeoViewports :
          MouseUp(b, v.innerWidth, v.innerHeight, TRUE)
    \/ \E b \in Buttons, v \in GeoViewports :
          DoubleClick(b, v.innerWidth, v.innerHeight)
    \/ \E v \in GeoViewports : Resize(v.innerWidth, v.innerHeight)

GeoSpec == Init /\ [][GeoNext]_vars

(***************************************************************************)
(* ButtonSpec: the titlebar buttons.  One dialog with the default props is *)
(* mounted, and mounted again after it was closed; the pointer is on any   *)
(* of its parts; every pointer event arrives at one position, inside the   *)
(* dialog and off its resize bands; a close click may be vetoed by onExit. *)
(***************************************************************************)
ButtonAdapters == {1}
ButtonPoint == Point(100, 10)

ButtonNext ==
    \/ \E a \in ButtonAdapters : Mount(a, NoRect)
    \/ \E a \in ButtonAdapters, part \in Parts : OnlyOver(a) /\ MouseEnter(a, part)
    \/ \E a \in ButtonAdapters, part \in Parts : MouseLeave(a, part)
    \/ MouseMove(ButtonPoint, FALSE)
    \/ \E b \in Buttons : MouseDown(b, ButtonPoint)
    \/ \E b \in Buttons, ok \in BOOLEAN :
          MouseUp(b, Viewport.innerWidth, Viewport.innerHeight, ok)

ButtonSpec == Init /\ [][ButtonNext]_vars

(***************************************************************************)
(* TipSpec: the tooltips.  One dialog with the default props is mounted,   *)
(* unmounted and mounted again; the pointer is on any of its parts; every  *)
(* pointer event arrives at one position, inside the dialog and off its    *)
(* resize bands; the title may or may not be truncated when the page is    *)
(* asked; the two tooltip timers fire at any time while they are pending.  *)
(***************************************************************************)
TipNext ==
    \/ \E a \in ButtonAdapters : Mount(a, NoRect)
    \/ \E a \in ButtonAdapters : Unmount(a)
    \/ \E a \in ButtonAdapters, part \in Parts : OnlyOver(a) /\ MouseEnter(a, part)
    \/ \E a \in ButtonAdapters, part \in Parts : MouseLeave(a, part)
    \/ \E o \in BOOLEAN : MouseMove(ButtonPoint, o)
    \/ \E b \in Buttons : MouseDown(b, ButtonPoint)
    \/ \E b \in Buttons :
          MouseUp(b, Viewport.innerWidth, Viewport.innerHeight, TRUE)
    \/ \E o \in BOOLEAN : ShowTimerFires(o)
    \/ CloseTimerFires

TipSpec == Init /\ [][TipNext]_vars

(***************************************************************************)
(* TipStackSpec: the tooltips on a stack of dialogs.  Up to two dialogs    *)
(* with the default props and a truncated title are mounted and unmounted; *)
(* the pointer is over one dialog at a time, on its body or its titlebar;  *)
(* every pointer event arrives at one position, inside the dialogs and off *)
(* their resize bands; the tooltip timers fire while they are pending.     *)
(***************************************************************************)
TipAdapters == {1, 2}

TipStackNext ==
    \/ \E a \in TipAdapters : Mount(a, NoRect)
    \/ \E a \in TipAdapters : Unmount(a)
    \/ \E a \in TipAdapters, part \in BodyParts : OnlyOver(a) /\ MouseEnter(a, part)
    \/ \E a \in TipAdapters, part \in BodyParts : MouseLeave(a, part)
    \/ MouseMove(ButtonPoint, TRUE)
    \/ \E b \in Buttons : MouseDown(b, ButtonPoint)
    \/ \E b \in Buttons :
          MouseUp(b, Viewport.innerWidth, Viewport.innerHeight, TRUE)
    \/ ShowTimerFires(TRUE)
    \/ CloseTimerFires

TipStackSpec == Init /\ [][TipStackNext]_vars

\* setTimeout runs a callback that was scheduled and not cleared: a timer
\* that stays pending fires
TimerFairness ==
    /\ WF_vars(CloseTimerFires)
    /\ WF_vars(\E o \in BOOLEAN : ShowTimerFires(o))

TipStackFairSpec == TipStackSpec /\ TimerFairness

(***************************************************************************)
(* CloseSpec: the close button on a stack of dialogs.  Up to two dialogs   *)
(* with the default props are mounted, and mounted again after they were   *)
(* closed; the pointer is over one dialog at a time and goes as far in as  *)
(* its close button; the left button is pressed and released at one        *)
(* position; the onExit prop of the clicked dialog may veto the close.     *)
(***************************************************************************)
CloseParts == {"window", "titlebar", "buttons", "close"}

CloseNext ==
    \/ \E a \in TipAdapters : Mount(a, NoRect)
    \/ \E a \in TipAdapters, part \in CloseParts : OnlyOver(a) /\ MouseEnter(a, part)
    \/ \E a \in TipAdapters, part \in CloseParts : MouseLeave(a, part)
    \/ MouseDown(0, ButtonPoint)
    \/ \E ok \in BOOLEAN :
          MouseUp(0, Viewport.innerWidth, Viewport.innerHeight, ok)

CloseSpec == Init /\ [][CloseNext]_vars

(***************************************************************************)
(* StateSpec: the maximized and minimized states.  One dialog with the     *)
(* default props is mounted, and mounted again after it was closed; the    *)
(* pointer is on any of its parts; the left button is pressed, released    *)
(* and double-clicked at one position, inside the dialog and off its       *)
(* resize bands.                                                           *)
(***************************************************************************)
StateNext ==
    \/ \E a \in ButtonAdapters : Mount(a, NoRect)
    \/ \E a \in ButtonAdapters, part \in Parts : MouseEnter(a, part)
    \/ \E a \in ButtonAdapters, part \in Parts : MouseLeave(a, part)
    \/ MouseDown(0, ButtonPoint)
    \/ MouseUp(0, Viewport.innerWidth, Viewport.innerHeight, TRUE)
    \/ DoubleClick(0, Viewport.innerWidth, Viewport.innerHeight)

StateSpec == Init /\ [][StateNext]_vars

(***************************************************************************)
(* MinSpec: the cursor state and the sessions over a minimized dialog.     *)
(* Two dialogs are mounted one below the other: the first has the default  *)
(* props, the second the prop y = 41.  The pointer is over one dialog at a *)
(* time: on the border, the titlebar or the minimize button of the first,  *)
(* on the border of the second.  The pointer events arrive in the top      *)
(* resize band of a dialog or off its resize bands, inside the dialog the  *)
(* pointer is on; the pointer moves between sessions only, so no dialog    *)
(* changes its place; the left button is pressed and released.             *)
(***************************************************************************)
BandPoint == Point(60, 4)
LowerBandPoint == Point(60, 44)
LowerPoint == Point(100, 50)
MinPoints == {BandPoint, ButtonPoint, LowerBandPoint, LowerPoint}
MinParts == {"window", "titlebar", "buttons", "minimize"}
LowerRect == DialogRect(Undef, Num(41), Undef, Undef, Undef, Undef, Undef)

MinNext ==
    \/ Mount(1, NoRect)
    \/ Mount(2, LowerRect)
    \/ \E part \in MinParts : OnlyOver(1) /\ MouseEnter(1, part)
    \/ \E part \in MinParts : MouseLeave(1, part)
    \/ OnlyOver(2) /\ MouseEnter(2, "window")
    \/ MouseLeave(2, "window")
    \/ \E p \in MinPoints :
          moveAction = "_defaultMouseMove" /\ Hit(p) /\ MouseMove(p, FALSE)
    \/ \E p \in MinPoints : Hit(p) /\ MouseDown(0, p)
    \/ MouseUp(0, Viewport.innerWidth, Viewport.innerHeight, TRUE)

MinSpec == Init /\ [][MinNext]_vars

(***************************************************************************)
(* MaxSpec: the sessions over maximized dialogs.  Up to two dialogs with    *)
(* the default props are mounted; the pointer is over one dialog at a      *)
(* time, on its border or its titlebar; the pointer events arrive at       *)
(* BandPoint, in the top resize band of the dialogs, or at ButtonPoint,    *)
(* off their resize bands; the pointer moves between sessions only; either *)
(* button is pressed and released, and a double click on the titlebar      *)
(* maximizes and restores the dialog.                                      *)
(***************************************************************************)
CursorPoints == {BandPoint, ButtonPoint}

MaxNext ==
    \/ \E a \in TipAdapters : Mount(a, NoRect)
    \/ \E a \in TipAdapters, part \in BodyParts : OnlyOver(a) /\ MouseEnter(a, part)
    \/ \E a \in TipAdapters, part \in BodyParts : MouseLeave(a, part)
    \/ \E p \in CursorPoints :
          moveAction = "_defaultMouseMove" /\ MouseMove(p, FALSE)
    \/ \E b \in Buttons, p \in CursorPoints : MouseDown(b, p)
    \/ \E b \in Buttons :
          MouseUp(b, Viewport.innerWidth, Viewport.innerHeight, TRUE)
    \/ DoubleClick(0, Viewport.innerWidth, Viewport.innerHeight)

MaxSpec == Init /\ [][MaxNext]_vars

(***************************************************************************)
(* OverlapSpec: overlapping dialogs.  Up to MaxWindows dialogs are mounted *)
(* in the same place, and the pointer-over flags of several of them can be *)
(* set at once: a dialog gets no mouseleave when another one comes to lie  *)
(* over it under a pointer at rest.                                        *)
(***************************************************************************)
OverlapNext ==
    \/ \E a \in Adapters : Mount(a, NoRect)
    \/ \E a \in Adapters, part \in BodyParts : MouseEnter(a, part)
    \/ \E a \in Adapters, part \in BodyParts : MouseLeave(a, part)
    \/ \E o \in BOOLEAN : MouseMove(CornerPoint, o)
    \/ \E b \in Buttons : MouseDown(b, CornerPoint)
    \/ \E b \in Buttons :
          MouseUp(b, Viewport.innerWidth, Viewport.innerHeight, TRUE)

OverlapSpec == Init /\ [][OverlapNext]_vars

(***************************************************************************)
(* SizeSpec: the size of one dialog.  The dialog is built with or without  *)
(* the optional width, height, minimum size and border width; the pointer  *)
(* is on any of its parts; the left button is pressed, released and        *)
(* double-clicked at ButtonPoint, so the dialog is minimized, maximized    *)
(* and restored; the viewport is one of SizeViewports, the second of which *)
(* is smaller than the default minimum size of a dialog, as the window of  *)
(* a narrow frame is.                                                      *)
(***************************************************************************)
SizeRects ==
    {DialogRect(Undef, Undef, w, w, m, m, b) :
        w \in {Undef, Num(3), Num(150)}, m \in {Undef, Num(1)},
        b \in {Undef, Num(4)}}
SizeViewports == {Viewport, [innerWidth |-> 100, innerHeight |-> 20]}

SizeNext ==
    \/ \E rc \in SizeRects : Mount(1, rc)
    \/ \E part \in Parts : MouseEnter(1, part)
    \/ \E part \in Parts : MouseLeave(1, part)
    \/ MouseDown(0, ButtonPoint)
    \/ \E v \in SizeViewports : MouseUp(0, v.innerWidth, v.innerHeight, TRUE)
    \/ \E v \in SizeViewports : DoubleClick(0, v.innerWidth, v.innerHeight)
    \/ \E v \in SizeViewports : Resize(v.innerWidth, v.innerHeight)

SizeSpec == Init /\ [][SizeNext]_vars

(***************************************************************************)
(* Properties of the registry.                                             *)
(***************************************************************************)
\* the adapters at the live positions 0 .. top - 1 of ws
RegisteredIn(ws, top) == {At(ws, i) : i \in 0..(top - 1)} \ {NULL}
\* the registered adapters that have the focus
FocusedIn(d, ws, top) == {a \in RegisteredIn(ws, top) : d[a].hasFocus}
TopWindow == At(windows, zIndexTop - 1)

\* C1: from the empty registry, each registerWindow stores the new window at
\* the old topIndex, which is the index it returns and the z-index the window
\* gets, raises topIndex by one, leaves the lower positions alone, and the
\* new window alone has the focus.
C1_RegisterSequence ==
    /\ zIndexTop = 0
    /\ [][zIndexTop' = zIndexTop + 1 =>
            LET a == At(windows', zIndexTop)
            IN  /\ a # NULL
                /\ dlg'[a].zIndex = zIndexTop
                /\ \A i \in 0..(zIndexTop - 1) : At(windows', i) = At(windows, i)
                /\ FocusedIn(dlg', windows', zIndexTop') = {a}]_vars

\* C1 witness: MaxWindows windows registered one after another
C1_Witness ==
    /\ zIndexTop = MaxWindows
    /\ Len(windows) = MaxWindows
    /\ \A i \in 0..(MaxWindows - 1) :
          At(windows, i) = i + 1 /\ dlg[i + 1].zIndex = i
    /\ FocusedIn(dlg, windows, zIndexTop) = {MaxWindows}

\* C2: unregisterWindow(k) with topIndex >= 2 and k < topIndex - 1 removes the
\* window at k, moves every window above k down by one index with its z-index
\* re-assigned, leaves the windows below k untouched, and afterwards exactly
\* one registered window is focused: the one at the new top index.
C2_Unregister ==
    [][(zIndexTop' = zIndexTop - 1 /\ zIndexTop >= 2) =>
          \A k \in 0..(zIndexTop - 2) :
             At(windows, k) \notin RegisteredIn(windows', zIndexTop') =>
                /\ \A i \in (k + 1)..(zIndexTop - 1) :
                      /\ At(windows', i - 1) = At(windows, i)
                      /\ dlg'[At(windows, i)].zIndex = i - 1
                /\ \A i \in 0..(k - 1) :
                      /\ At(windows', i) = At(windows, i)
                      /\ dlg'[At(windows, i)] = dlg[At(windows, i)]
                /\ FocusedIn(dlg', windows', zIndexTop')
                      = {At(windows', zIndexTop' - 1)}]_vars

C4_AtMostOneFocused ==
    Cardinality(FocusedIn(dlg, windows, zIndexTop)) <= 1

\* C4 witness: one of several windows is focused, after an unregistration
\* and with a window maximized by a double click
C4_Witness ==
    /\ zIndexTop >= 2
    /\ Len(windows) > zIndexTop
    /\ Cardinality(FocusedIn(dlg, windows, zIndexTop)) = 1
    /\ \E a \in RegisteredIn(windows, zIndexTop) : dlg[a].isMaximized

\* C5: the adapter at every live registry position i has i as its z-index,
\* and no adapter is at two live positions.
C5_ZIndexIsPosition ==
    /\ \A i \in 0..(zIndexTop - 1) :
          /\ At(windows, i) # NULL
          /\ dlg[At(windows, i)].zIndex = i
    /\ \A i, j \in 0..(zIndexTop - 1) :
          At(windows, i) = At(windows, j) => i = j

\* C5 witness: a full registry whose order is no longer the mount order,
\* after an unregistration
C5_Witness ==
    /\ zIndexTop = MaxWindows
    /\ Len(windows) > zIndexTop
    /\ At(windows, 0) = MaxWindows

(***************************************************************************)
(* Properties of the DialogRect.                                           *)
(***************************************************************************)
LeftTypes == {cursorState.left, cursorState.bottomleft, cursorState.topleft}
TopTypes == {cursorState.top, cursorState.topright, cursorState.topleft}

\* C8: after resizeToCursor, for every edge / corner state and every sequence
\* of pointer positions, width >= minWidth and height >= minHeight.
C8_MinimumSize ==
    rop.op = "resizeToCursor" =>
        rect.width >= rect.minWidth /\ rect.height >= rect.minHeight

\* C8 witness: a drag of the top-left corner shrank an 8 x 8 rect to the
\* minimum size (its left edge is right of every initial position)
C8_Witness ==
    /\ rop = [op |-> "resizeToCursor", type |-> cursorState.topleft]
    /\ rect.width = rect.minWidth /\ rect.height = rect.minHeight
    /\ rect.left > 3 /\ rect.top > 3

\* what C9 says of one resizeToCursor call at the pointer position p
PinnedAtMinimum(p) ==
    LET cx == p.x + rect.cursorOffset.x
        cy == p.y + rect.cursorOffset.y
    IN  /\ rop.type \in LeftTypes =>
              /\ cx > rect.right - rect.minWidth =>
                    /\ rect'.width = rect.minWidth
                    /\ rect'.left = rect.right - rect.minWidth
              /\ cx <= 0 => rect'.left >= 1
        /\ rop.type \in TopTypes =>
              /\ cy > rect.bottom - rect.minHeight =>
                    /\ rect'.height = rect.minHeight
                    /\ rect'.top = rect.bottom - rect.minHeight
              /\ cy <= 0 => rect'.top >= 1

\* C9: when the left (top) edge is dragged past the point where the width
\* (height) reaches the minimum, the size is the minimum and left (top) is
\* right - minWidth (bottom - minHeight), wherever beyond that point the
\* pointer is; and a pointer coordinate <= 0 never yields left < 1 or top < 1.
C9_PinAtMinimum ==
    [][\A p \in RectPoints : RectResize(p) => PinnedAtMinimum(p)]_vars

\* C9, amended: the same, for a rect that has left >= 1 and top >= 1 when
\* resizeToCursor is called.
C9_PinAtMinimumOnScreen ==
    [][\A p \in RectPoints :
          (RectResize(p) /\ rect.left >= 1 /\ rect.top >= 1)
              => PinnedAtMinimum(p)]_vars

\* C9 witness: a drag of the top-left corner of an on-screen 8 x 8 rect left
\* it at the minimum size with its right and bottom edges where they were
C9_Witness ==
    /\ rop = [op |-> "resizeToCursor", type |-> cursorState.topleft]
    /\ rect.width = rect.minWidth /\ rect.height = rect.minHeight
    /\ rect.right = 3 + 8 /\ rect.bottom = 1 + 8

(***************************************************************************)
(* Properties of the move gesture and of maximize / restore.               *)
(***************************************************************************)
\* C6: when a Moving session returns to Idle, whichever pointer-up ends it,
\* the moved window's rect has left >= 1 and top >= 1.
C6_MoveEndsOnScreen ==
    [][(moveAction = "_moveWindow" /\ moveAction' = "_defaultMouseMove") =>
          LET a == At(windows, activeWindow)
          IN  dlg'[a].rc.left >= 1 /\ dlg'[a].rc.top >= 1]_vars

\* what holds of C6: a left pointer-up that ends a Moving session leaves the
\* moved window's rect with left >= 1 and top >= 1
C6_LeftReleaseOnScreen ==
    [][(/\ moveAction = "_moveWindow"
        /\ \E v \in GeoViewports : MouseUp(0, v.innerWidth, v.innerHeight, TRUE))
          => LET a == At(windows, activeWindow)
             IN  dlg'[a].rc.left >= 1 /\ dlg'[a].rc.top >= 1]_vars

\* the left, top, width and height of two rects are the same
SamePlace(r1, r2) ==
    /\ r1.left = r2.left /\ r1.top = r2.top
    /\ r1.width = r2.width /\ r1.height = r2.height

\* C10: for every rect a window has when it can be maximized, the maximize
\* click followed by the maximize click again gives back its left, top,
\* width and height, whatever the viewport is at either click.
C10_MaximizeRoundTrip ==
    \A a \in Adapters :
        (dlg[a].status = "mounted" /\ ~dlg[a].isMaximized /\ ~dlg[a].isMinimized) =>
            \A v1, v2 \in GeoViewports :
                LET m == clickMaximize(dlg[a], v1.innerWidth, v1.innerHeight)
                    r == clickMaximize(m, v2.innerWidth, v2.innerHeight)
                IN  /\ m.isMaximized /\ ~SamePlace(m.rc, dlg[a].rc)
                    /\ ~r.isMaximized /\ SamePlace(r.rc, dlg[a].rc)

\* C10 witness: a dialog left off-screen by a move was maximized and
\* restored by double clicks, and is where it was
C10_Witness ==
    /\ dlg[1].status = "mounted" /\ ~dlg[1].isMaximized
    /\ dlg[1].rcCache.left < 0 /\ dlg[1].rcCache.top < 0
    /\ dlg[1].rc.left = dlg[1].rcCache.left /\ dlg[1].rc.top = dlg[1].rcCache.top
    /\ dlg[1].rc.width = dlg[1].rcCache.width
    /\ dlg[1].rc.height = dlg[1].rcCache.height
    /\ last.clicks = <<<<1, titlebarButtons.maximize>>>>

(***************************************************************************)
(* Properties of the titlebar-button press.                                *)
(***************************************************************************)
InButtonPress == moveAction = "_titlebarButtonMouseMove"

\* the pointer moves: a mousemove event, or a mouseenter / mouseleave of a
\* part of a dialog
PointerMoves ==
    \/ MouseMove(ButtonPoint, FALSE)
    \/ \E a \in ButtonAdapters, part \in Parts :
          MouseEnter(a, part) \/ MouseLeave(a, part)

\* C7: a left pointer-down on the titlebar button b of the window w starts a
\* ButtonPress session that remembers w and b; the pointer moves that follow
\* keep the session, w and b, and click nothing; the left pointer-up then
\* invokes the click action of w for b exactly once if w.hoverTitlebarButton
\* = b, and no click action at all otherwise.
C7_ClickCommit ==
    [][/\ (~InButtonPress /\ InButtonPress') =>
            LET w == At(windows', activeWindow')
            IN  /\ w # NULL
                /\ dlg[w].cursorOnTitlebarButtons
                /\ dlg[w].hoverTitlebarButton # NO_VALUE =>
                       pressedButton' = dlg[w].hoverTitlebarButton
                /\ pressedButton' = dlg'[w].hoverTitlebarButton
                /\ last'.clicks = <<>>
       /\ (InButtonPress /\ PointerMoves) =>
            /\ InButtonPress'
            /\ pressedButton' = pressedButton
            /\ At(windows', activeWindow') = At(windows, activeWindow)
            /\ last'.clicks = <<>>
       /\ (/\ InButtonPress
           /\ \E ok \in BOOLEAN :
                 MouseUp(0, Viewport.innerWidth, Viewport.innerHeight, ok)) =>
            LET w == At(windows, activeWindow)
            IN  /\ w # NULL
                /\ last'.clicks =
                      IF dlg[w].hoverTitlebarButton = pressedButton
                      THEN <<<<w, pressedButton>>>> ELSE <<>>]_vars

\* C7 witness: the left pointer-up of a press on the minimize button, with
\* the pointer still on it, ended the session and minimized the dialog
C7_Witness ==
    /\ last.clicks = <<<<1, titlebarButtons.minimize>>>>
    /\ pressedButton = titlebarButtons.minimize
    /\ dlg[1].hoverTitlebarButton = titlebarButtons.minimize
    /\ dlg[1].isMinimized
    /\ moveAction = "_defaultMouseMove"

(***************************************************************************)
(* Properties of the tooltips.                                             *)
(***************************************************************************)
\* the window an idle pointer move hovers, as an adapter (NULL for none)
HoveredWindow == At(windows, FirstHovered(Cur))
\* the hovered window has a tooltip target under the pointer: its titlebar
\* buttons, or its title when the page reports it truncated, off the resize
\* bands of the window
OnTooltipTarget(cursorPos, overflowing) ==
    /\ moveAction = "_defaultMouseMove"
    /\ HoveredWindow # NULL
    /\ getCursorState(dlg[HoveredWindow], cursorPos) = cursorState.regular
    /\ dlg[HoveredWindow].cursorOnTitlebar
    /\ dlg[HoveredWindow].cursorOnTitlebarButtons \/ overflowing

\* C11: while no tooltip is visible, an idle pointer move over a tooltip
\* target shows nothing and leaves the show timer pending for the hovered
\* window; a window gets recorded as showing a tooltip only by a firing of the
\* show timer; when the timer fires on a registered window that accepts the
\* request, the window is recorded and shows the tooltip and the close timer
\* is pending, and when the window declines, no window is recorded, nothing is
\* shown and the close timer is idle
C11_ShowOnTimerOnly ==
    /\ [](\A o \in BOOLEAN :
            (windowWithVisibleTooltip = NO_VALUE /\ OnTooltipTarget(ButtonPoint, o))
            => LET S == _onMouseMove(Cur, ButtonPoint, o)
               IN  /\ ~S.threw
                   /\ S.windowWithVisibleTooltip = NO_VALUE
                   /\ \A a \in Adapters :
                         S.dlg[a].tooltipVisible = dlg[a].tooltipVisible
                   /\ S.showTooltipTimer = [id |-> "set", args |-> FirstHovered(Cur)]
                   /\ S.closeTooltipTimer.id = "null")
    /\ [][/\ (windowWithVisibleTooltip = NO_VALUE
               /\ windowWithVisibleTooltip' # NO_VALUE)
              => \E o \in BOOLEAN : ShowTimerFires(o)
          /\ \A o \in BOOLEAN :
                (ShowTimerFires(o) /\ At(windows, showTooltipTimer.args) # NULL)
                => LET a == At(windows, showTooltipTimer.args)
                   IN  IF showTooltip(dlg[a], o)[2]
                       THEN /\ windowWithVisibleTooltip' = showTooltipTimer.args
                            /\ dlg'[a].tooltipVisible
                            /\ closeTooltipTimer'.id = "set"
                       ELSE /\ windowWithVisibleTooltip' = NO_VALUE
                            /\ dlg' = dlg
                            /\ closeTooltipTimer'.id = "null"]_vars

\* the show timer fired on a truncated title: the tooltip is on the title of
\* the recorded window and the close timer is pending
C11_Witness ==
    /\ windowWithVisibleTooltip # NO_VALUE
    /\ At(windows, windowWithVisibleTooltip) # NULL
    /\ dlg[At(windows, windowWithVisibleTooltip)].status = "mounted"
    /\ dlg[At(windows, windowWithVisibleTooltip)].tooltipOnTitle
    /\ closeTooltipTimer.id = "set"
    /\ showTooltipTimer.id = "null"

\* the hovered window shows a tooltip, and the pointer is now on another of
\* its tooltip targets: on a titlebar button the tooltip is not on, or on the
\* truncated title while the tooltip is on a button
TargetChanged(cursorPos, overflowing) ==
    /\ OnTooltipTarget(cursorPos, overflowing)
    /\ windowWithVisibleTooltip = FirstHovered(Cur)
    /\ dlg[HoveredWindow].tooltipVisible
    /\ IF dlg[HoveredWindow].cursorOnTitlebarButtons
       THEN /\ dlg[HoveredWindow].hoverTitlebarButton # NO_VALUE
            /\ dlg[HoveredWindow].tooltipOnTitlebarButton
                   # dlg[HoveredWindow].hoverTitlebarButton
       ELSE ~dlg[HoveredWindow].tooltipOnTitle

\* C12: when the tooltip target under the pointer differs from the one the
\* visible tooltip of the hovered window is on, an idle pointer move leaves
\* the window recorded, with its tooltip visible and on the new target (the
\* hovered button, or the title), the close timer pending and the show timer
\* idle
C12_ImmediateReshow ==
    \A o \in BOOLEAN :
        TargetChanged(ButtonPoint, o)
        => LET S == _onMouseMove(Cur, ButtonPoint, o)
               a == HoveredWindow
           IN  /\ ~S.threw
               /\ S.windowWithVisibleTooltip = windowWithVisibleTooltip
               /\ S.dlg[a].tooltipVisible
               /\ IF dlg[a].cursorOnTitlebarButtons
                  THEN /\ S.dlg[a].tooltipOnTitlebarButton = dlg[a].hoverTitlebarButton
                       /\ ~S.dlg[a].tooltipOnTitle
                  ELSE /\ S.dlg[a].tooltipOnTitlebarButton = NO_VALUE
                       /\ S.dlg[a].tooltipOnTitle
               /\ S.showTooltipTimer.id = "null"
               /\ S.closeTooltipTimer.id = "set"

\* the tooltip of the minimize button is visible and the pointer has moved
\* on to the close button of the same window
C12_Witness ==
    /\ TargetChanged(ButtonPoint, FALSE)
    /\ dlg[HoveredWindow].status = "mounted"
    /\ dlg[HoveredWindow].tooltipOnTitlebarButton = titlebarButtons.minimize
    /\ dlg[HoveredWindow].hoverTitlebarButton = titlebarButtons.close

\* both tooltip timers are idle, no window is recorded as showing a tooltip
\* and no mounted dialog displays one
TooltipsOff(d, st, ct, wv) ==
    /\ st.id = "null"
    /\ ct.id = "null"
    /\ wv = NO_VALUE
    /\ \A a \in Adapters : d[a].status = "mounted" => ~d[a].tooltipVisible

\* C13: after an idle pointer move that finds no hovered window, after every
\* pointer down, and whenever a session starts, both tooltip timers are idle,
\* no window is recorded as showing a tooltip and no dialog displays one
C13_TooltipReset ==
    [][((\/ moveAction = "_defaultMouseMove" /\ FirstHovered(Cur) = NO_VALUE
             /\ MouseMove(ButtonPoint, TRUE)
         \/ \E b \in Buttons : MouseDown(b, ButtonPoint)
         \/ moveAction = "_defaultMouseMove" /\ moveAction' # "_defaultMouseMove"))
        => TooltipsOff(dlg', showTooltipTimer', closeTooltipTimer',
                       windowWithVisibleTooltip')]_vars

(***************************************************************************)
(* Properties of the titlebar buttons.                                     *)
(***************************************************************************)
\* a left release now clicks the close button of the mounted dialog a: the
\* button-press session is on a, the close button was pressed and the pointer
\* is on it
ClosePress(a) ==
    /\ moveAction = "_titlebarButtonMouseMove"
    /\ pressedButton = titlebarButtons.close
    /\ At(windows, activeWindow) = a
    /\ dlg[a].status = "mounted"
    /\ dlg[a].hoverTitlebarButton = titlebarButtons.close

\* C14: a click of the close button of a dialog whose onExit returns a falsy
\* value calls the close action and changes neither the windows array, nor
\* zIndexTop, nor the focus or the mounted status of any dialog; with no
\* onExit, or a truthy result, the dialog is unregistered and closed; and a
\* dialog leaves the registry only in such an accepted close click
C14_ExitVeto ==
    [][\A a \in Adapters :
          /\ (ClosePress(a)
               /\ MouseUp(0, Viewport.innerWidth, Viewport.innerHeight, FALSE))
              => /\ windows' = windows
                 /\ zIndexTop' = zIndexTop
                 /\ \A b \in Adapters : /\ dlg'[b].hasFocus = dlg[b].hasFocus
                                        /\ dlg'[b].status = dlg[b].status
                 /\ ~last'.threw
                 /\ last'.clicks = <<(<<a, titlebarButtons.close>>)>>
          /\ (ClosePress(a)
               /\ MouseUp(0, Viewport.innerWidth, Viewport.innerHeight, TRUE))
              => /\ a \notin RegisteredIn(windows', zIndexTop')
                 /\ dlg'[a].status # "mounted"
                 /\ zIndexTop' = zIndexTop - 1
          /\ (/\ a \in RegisteredIn(windows, zIndexTop)
               /\ a \notin RegisteredIn(windows', zIndexTop'))
              => /\ ClosePress(a)
                 /\ MouseUp(0, Viewport.innerWidth, Viewport.innerHeight, TRUE)]_vars

\* a close click was vetoed while two dialogs are registered: the clicked
\* dialog is still mounted, on top and focused
C14_Witness ==
    /\ zIndexTop = 2
    /\ \E a \in Adapters :
          /\ ~last.threw
          /\ last.clicks = <<(<<a, titlebarButtons.close>>)>>
          /\ dlg[a].status = "mounted"
          /\ TopWindow = a
          /\ dlg[a].hasFocus

(***************************************************************************)
(* Properties of the focus callbacks.                                      *)
(***************************************************************************)
\* the callbacks calls, made in this order by a dialog whose focus was f0,
\* are each a change of the focus (onFocus when unfocused, onBlur when
\* focused) and leave the focus f1
RECURSIVE CallsMatch(_, _, _)
CallsMatch(f0, calls, f1) ==
    IF calls = <<>> THEN f0 = f1
    ELSE /\ Head(calls) = (IF f0 THEN "onBlur" ELSE "onFocus")
         /\ CallsMatch(~f0, Tail(calls), f1)

\* C15: in every event, the onFocus / onBlur calls of each mounted dialog
\* are exactly its changes of focus: onFocus is called when the dialog goes
\* from unfocused to focused, onBlur when it goes from focused to unfocused,
\* and nothing is called when the focus is set to the value it has (a new
\* dialog starts unfocused)
C15_FocusCallbacks ==
    [][\A a \in Adapters :
          dlg'[a].status = "mounted"
          => CallsMatch(dlg[a].status = "mounted" /\ dlg[a].hasFocus,
                        last'.calls[a], dlg'[a].hasFocus)]_vars

\* a pointer down raised the lowest of three dialogs: it called onFocus, the
\* dialog that was on top called onBlur, and the third, unfocused before and
\* after, was told to drop the focus and called nothing
C15_Witness ==
    /\ zIndexTop = 3
    /\ activeWindow = 2
    /\ \A a \in Adapters : dlg[a].status = "mounted"
    /\ \E a, b, c \in Adapters :
          /\ last.calls[a] = <<"onFocus">> /\ dlg[a].hasFocus
          /\ last.calls[b] = <<"onBlur">> /\ ~dlg[b].hasFocus /\ dlg[b].zIndex = 1
          /\ last.calls[c] = <<>> /\ ~dlg[c].hasFocus /\ dlg[c].zIndex = 0

(***************************************************************************)
(* Properties of the maximized and minimized states.                       *)
(***************************************************************************)
\* the size, place and state of a dialog
Shape(w) == <<w.isMaximized, w.isMinimized, w.rc, w.rcCache>>

\* C16: no dialog is both maximized and minimized; a maximize action (button
\* click or double click) on a minimized dialog and a minimize click on a
\* maximized dialog leave its state, rect and cached rect unchanged
C16_MaxMinExclusive ==
    /\ [](\A a \in Adapters : ~(dlg[a].isMaximized /\ dlg[a].isMinimized))
    /\ [][\A a \in Adapters :
            /\ (last'.clicks = <<(<<a, titlebarButtons.maximize>>)>>
                 /\ dlg[a].isMinimized)
                => Shape(dlg'[a]) = Shape(dlg[a])
            /\ (last'.clicks = <<(<<a, titlebarButtons.minimize>>)>>
                 /\ dlg[a].isMaximized)
                => Shape(dlg'[a]) = Shape(dlg[a])]_vars

\* the minimize button of a maximized dialog was clicked, and the dialog is
\* still maximized and not minimized
C16_Witness ==
    \E a \in Adapters :
        /\ last.clicks = <<(<<a, titlebarButtons.minimize>>)>>
        /\ dlg[a].status = "mounted"
        /\ dlg[a].isMaximized
        /\ ~dlg[a].isMinimized

(***************************************************************************)
(* Properties of the sessions on minimized and maximized dialogs.          *)
(***************************************************************************)
\* no session is in progress and the pointer is over the mounted dialog a,
\* which is the one a pointer down finds
IdleOver(a) ==
    /\ moveAction = "_defaultMouseMove"
    /\ HoveredWindow = a
    /\ a # NULL
    /\ dlg[a].status = "mounted"

\* C17: a pointer down on a minimized dialog never makes _resizeWindow the
\* move handler, and a left pointer down on its titlebar off the titlebar
\* buttons makes _moveWindow the move handler, with that dialog active
C17_MinimizedMoves ==
    \A a \in Adapters, p \in MinPoints :
        (IdleOver(a) /\ dlg[a].isMinimized /\ Hit(p))
        => LET S == _onMouseDown(Cur, 0, p)
           IN  /\ S.moveAction # "_resizeWindow"
               /\ (dlg[a].cursorOnTitlebar /\ ~dlg[a].cursorOnTitlebarButtons)
                  => /\ S.moveAction = "_moveWindow"
                     /\ At(S.windows, S.activeWindow) = a

\* C19: an idle pointer move over a maximized or minimized dialog leaves the
\* manager's cursor state regular, whatever it was and wherever on the
\* dialog the pointer is
C19_RegularOverMaxMin ==
    \A a \in Adapters, p \in MinPoints :
        (/\ IdleOver(a)
         /\ dlg[a].isMaximized \/ dlg[a].isMinimized
         /\ Hit(p))
        => _onMouseMove(Cur, p, FALSE).currCursor = cursorState.regular

\* a pointer down with the given button on maximized dialog a, hovered on its
\* titlebar off the titlebar buttons or on its border, starts no session
\* (handlers: the move handlers that may remain), raises and focuses a
DownOnMaximized(a, button, cursorPos, handlers) ==
    (/\ IdleOver(a)
     /\ dlg[a].isMaximized
     /\ dlg[a].cursorOnTitlebar => ~dlg[a].cursorOnTitlebarButtons
     /\ Hit(cursorPos))
    => LET S == _onMouseDown(Cur, button, cursorPos)
       IN  /\ ~S.threw
           /\ S.moveAction \in handlers
           /\ S.activeWindow = S.zIndexTop - 1
           /\ At(S.windows, S.activeWindow) = a
           /\ S.dlg[a].hasFocus

\* C18 (as stated): a pointer down, of any button, on a maximized dialog, on
\* its titlebar off the buttons or on its border, leaves _defaultMouseMove the
\* move handler, and the dialog is raised and focused
C18_MaximizedStaysDefault ==
    \A a \in Adapters, b \in Buttons, p \in CursorPoints :
        DownOnMaximized(a, b, p, {"_defaultMouseMove"})

\* C18 (amended): a pointer down on a maximized dialog, on its titlebar off
\* the buttons or on its border, never makes _moveWindow or _resizeWindow the
\* move handler, and the dialog is raised and focused; with the left button
\* the move handler stays _defaultMouseMove, with the right button on the
\* titlebar it becomes noop
C18_MaximizedNoSession ==
    \A a \in Adapters, p \in CursorPoints :
        /\ DownOnMaximized(a, 0, p, {"_defaultMouseMove"})
        /\ DownOnMaximized(a, 2, p,
               IF dlg[a].cursorOnTitlebar THEN {"noop"} ELSE {"_defaultMouseMove"})

\* a left pointer down on the titlebar of a maximized dialog has acted: the
\* dialog is active, on top and focused, and no session runs
C18_Witness ==
    \E a \in Adapters :
        /\ dlg[a].status = "mounted"
        /\ dlg[a].isMaximized
        /\ dlg[a].cursorOnTitlebar /\ ~dlg[a].cursorOnTitlebarButtons
        /\ activeWindow = zIndexTop - 1
        /\ At(windows, activeWindow) = a
        /\ dlg[a].hasFocus
        /\ moveAction = "_defaultMouseMove"
        /\ zIndexTop = 2

\* C20: a pointer up, whatever its button and whatever the session in
\* progress, leaves no active window and _defaultMouseMove the move handler
C20_IdleAfterMouseUp ==
    \A b \in Buttons, exitOk \in BOOLEAN :
        LET S == _onMouseUp(Cur, b, Viewport.innerWidth, Viewport.innerHeight,
                            exitOk)
        IN  /\ S.activeWindow = NO_VALUE
            /\ S.moveAction = "_defaultMouseMove"

(***************************************************************************)
(* Properties of the pointer-down scan, of unregisterWindow's guard and of *)
(* the events that arrive at an empty registry.                            *)
(***************************************************************************)
\* the state S0 with the pointer on the parts of the window the scan finds
\* that start the session kind wanted, and with the cursor state c
OverParts(S0, onTitlebar, onButtons, c) ==
    LET a == At(S0.windows, FirstHovered(S0))
    IN  IF a = NULL THEN S0
        ELSE [S0 EXCEPT !.dlg[a].cursorOnTitlebar = onTitlebar,
                        !.dlg[a].cursorOnTitlebarButtons = onButtons,
                        !.currCursor = c]

\* a pointer down in the state S0 raises the window the scan finds, at index
\* i, to the top index and focuses it; the windows above i move down one
\* index, the windows below i stay where they are
DownRaises(S0, button, cursorPos) ==
    LET i   == FirstHovered(S0)
        a   == At(S0.windows, i)
        top == S0.zIndexTop
        S   == _onMouseDown(S0, button, cursorPos)
    IN  i # NO_VALUE =>
           /\ a # NULL
           /\ ~S.threw
           /\ S.zIndexTop = top
           /\ At(S.windows, top - 1) = a
           /\ S.dlg[a].zIndex = top - 1
           /\ S.dlg[a].hasFocus
           /\ S.activeWindow = top - 1
           /\ \A j \in (i + 1)..(top - 1) :
                 /\ At(S.windows, j - 1) = At(S0.windows, j)
                 /\ S.dlg[At(S0.windows, j)].zIndex = j - 1
           /\ \A j \in 0..(i - 1) : At(S.windows, j) = At(S0.windows, j)

\* C21: a pointer down that matches a window raises it to the top index and
\* focuses it, every window above it moves down one index and the order of
\* the other windows is kept, whichever session starts: Moving, Resizing,
\* ButtonPress, ContextMenuPending or none
C21_DownRaisesMatch ==
    \A b \in Buttons, onTitlebar \in BOOLEAN, onButtons \in BOOLEAN,
       c \in {cursorState.regular, cursorState.topleft} :
        (onButtons => onTitlebar) =>
            DownRaises(OverParts(Cur, onTitlebar, onButtons, c), b, CornerPoint)

\* C21 witness: a right pointer down on the titlebar of the window at index
\* 0 of a full registry raised it: the window mounted first is on top,
\* focused and active, the two others are below it in their order
C21_Witness ==
    /\ zIndexTop = MaxWindows
    /\ MaxWindows >= 3
    /\ rightClickTitlebar /\ moveAction = "noop"
    /\ activeWindow = zIndexTop - 1
    /\ At(windows, zIndexTop - 1) = 1
    /\ At(windows, 0) = 2 /\ At(windows, 1) = 3
    /\ dlg[1].hasFocus /\ dlg[1].cursorOnTitlebar

\* C22: the manager listens to no event of the page while no window is
\* registered, and to mousemove, mouseup, mousedown, dblclick and resize
\* while at least one is
C22_ListensWhileRegistered ==
    IF zIndexTop = 0
    THEN listeners = {}
    ELSE listeners = {"mousemove", "mouseup", "mousedown", "dblclick", "resize"}

\* the indexes off the range 0 .. zIndexTop - 1 in the state S: negative
\* ones, zIndexTop, and every slot of the array beyond it
InvalidIndexes(S) == {-2, -1} \cup (S.zIndexTop..(Len(S.windows) + 1))

\* C23: unregisterWindow with an index that is negative, zIndexTop or above,
\* or the index of a slot that was unregistered, does not throw and changes
\* nothing: not the registry, not a window, not the session, not the tooltip
C23_InvalidUnregister ==
    \A k \in InvalidIndexes(Cur) : unregisterWindow(Cur, k) = Cur

\* C23 witness: a window is registered, the slot beyond it still holds the
\* window that was unregistered, a tooltip is displayed, and unregisterWindow
\* with the index of that slot changes nothing
C23_Witness ==
    /\ zIndexTop = 1
    /\ At(windows, zIndexTop) # NULL
    /\ windowWithVisibleTooltip # NO_VALUE
    /\ closeTooltipTimer.id = "set"
    /\ unregisterWindow(Cur, zIndexTop) = Cur

\* C24: while no window is registered, a mousedown, mouseup, mousemove,
\* dblclick or resize event does not throw and leaves the manager's state as
\* it was
C24_EmptyRegistryEvents ==
    zIndexTop = 0 =>
        \A b \in Buttons :
            LET W == Viewport.innerWidth
                H == Viewport.innerHeight
            IN  /\ _onMouseDown(Cur, b, CornerPoint) = Cur
                /\ _onMouseUp(Cur, b, W, H, TRUE) = Cur
                /\ _onMouseMove(Cur, CornerPoint, FALSE) = Cur
                /\ _onDoubleClick(Cur, b, W, H) = Cur
                /\ _onResize(Cur, W, H) = Cur

(***************************************************************************)
(* Properties of the tooltip timers.                                       *)
(***************************************************************************)
\* the adapters whose state differs between the states S and T
Touched(S, T) == {a \in Adapters : S.dlg[a] # T.dlg[a]}

\* C25: an unregisterWindow made while the show timer is pending or a
\* tooltip is displayed cancels the pending timer; and a tooltip timer that
\* fires does not throw and calls showTooltip / closeTooltip on registered
\* windows only
C25_UnregisterCancelsTimers ==
    /\ [](\A o \in BOOLEAN :
            /\ showTooltipTimer.id = "set" =>
                  LET S0 == [Cur EXCEPT !.showTooltipTimer = TimerIdle]
                      S  == _showTooltip(S0, showTooltipTimer.args, o)
                  IN  ~S.threw /\ Touched(S0, S) \subseteq Registered
            /\ closeTooltipTimer.id = "set" =>
                  LET S0 == [Cur EXCEPT !.closeTooltipTimer = TimerIdle]
                      S  == _resetTooltip(S0)
                  IN  ~S.threw /\ Touched(S0, S) \subseteq Registered)
    /\ [][(/\ zIndexTop' = zIndexTop - 1
           /\ showTooltipTimer.id = "set" \/ windowWithVisibleTooltip # NO_VALUE)
          => showTooltipTimer'.id = "null" /\ closeTooltipTimer'.id = "null"]_vars

\* C26: for each of the two timers, start while a callback is pending keeps
\* the pending callback and its argument, start on an idle timer makes one
\* callback pending, cancel leaves the timer idle whether it was idle or
\* pending and a second cancel changes nothing; a callback runs only for a
\* timer that is pending (a cancelled one was started again), and the timer
\* is idle when its callback has run
C26_TimerOneShot ==
    /\ [](\A t \in {showTooltipTimer, closeTooltipTimer},
             x \in {NO_VALUE} \cup (0..MaxWindows) :
             /\ t.id = "set" => TimerStart(t, x) = t
             /\ t.id = "null" => TimerStart(t, x) = [id |-> "set", args |-> x]
             /\ TimerCancel(t).id = "null"
             /\ TimerCancel(TimerCancel(t)) = TimerCancel(t))
    /\ [][/\ (\E o \in BOOLEAN : ShowTimerFires(o))
             => showTooltipTimer.id = "set" /\ showTooltipTimer'.id = "null"
          /\ CloseTimerFires
             => closeTooltipTimer.id = "set" /\ closeTooltipTimer'.id = "null"]_vars

\* C26 witness: the show timer fired and left the close timer pending for
\* the displayed tooltip; the show timer is idle, and a start of the close
\* timer with another argument changes nothing
C26_Witness ==
    /\ windowWithVisibleTooltip = 0
    /\ showTooltipTimer.id = "null"
    /\ closeTooltipTimer = [id |-> "set", args |-> NO_VALUE]
    /\ TimerStart(closeTooltipTimer, 1) = closeTooltipTimer

(***************************************************************************)
(* Properties of the sessions.                                             *)
(***************************************************************************)
\* C27: while _resizeWindow is the move handler the manager's cursor state
\* is an edge or a corner, and no event changes it: not a pointer move to
\* any position, on another band or off the window, not a further pointer
\* down that leaves the session running, not the pointer entering another
\* window
C27_ResizeEdgeFixed ==
    /\ [](moveAction = "_resizeWindow" =>
             /\ currCursor \in ResizeStates
             /\ \A p \in GeoPoints, b \in Buttons :
                   /\ _onMouseMove(Cur, p, FALSE).currCursor = currCursor
                   /\ _onMouseDown(Cur, b, p).currCursor = currCursor)
    /\ [][(moveAction = "_resizeWindow" /\ moveAction' = "_resizeWindow")
             => currCursor' = currCursor]_vars

\* C27 witness: a resize session of the top-left corner runs on the top
\* window, a pointer move of the session was handled, and the pointer is
\* over another window
C27_Witness ==
    /\ moveAction = "_resizeWindow"
    /\ currCursor = cursorState.topleft
    /\ activeWindow = zIndexTop - 1
    /\ TopWindow # NULL
    /\ ~dlg[TopWindow].cursorOnWindow
    /\ \E a \in Registered : dlg[a].cursorOnWindow
    /\ _onMouseMove(Cur, CornerPoint, FALSE) = Cur

\* C28: an idle pointer move that starts to hover a tooltip target of
\* window w while another registered window displays a tooltip closes that
\* tooltip, leaves no window recorded as showing one, cancels the close timer
\* and arms the show timer with the index of w; w displays no tooltip yet
C28_HoverElsewhere ==
    \A o \in BOOLEAN :
        LET i == FirstHovered(Cur)
            w == At(windows, i)
            others == Registered \ {w}
        IN  (/\ OnTooltipTarget(ButtonPoint, o)
             /\ ~dlg[w].tooltipVisible
             /\ \E v \in others : dlg[v].tooltipVisible)
            => LET S == _onMouseMove(Cur, ButtonPoint, o)
               IN  /\ ~S.threw
                   /\ \A v \in others : ~S.dlg[v].tooltipVisible
                   /\ S.windowWithVisibleTooltip = NO_VALUE
                   /\ S.closeTooltipTimer.id = "null"
                   /\ S.showTooltipTimer = [id |-> "set", args |-> i]
                   /\ ~S.dlg[w].tooltipVisible

\* C29: when several registered windows have cursorOnWindow set, a pointer
\* down raises, focuses and activates the one with the lowest index and
\* moves the other matching windows down one index; an idle pointer move
\* hovers that window alone: no other window changes, and a show timer that
\* is armed is armed with its index
C29_FirstMatchWins ==
    LET H == {i \in 0..(zIndexTop - 1) : dlg[At(windows, i)].cursorOnWindow}
        i == CHOOSE m \in H : \A j \in H : m <= j
        a == At(windows, i)
    IN  Cardinality(H) >= 2 =>
           /\ \A b \in Buttons :
                 LET S == _onMouseDown(Cur, b, CornerPoint)
                 IN  /\ ~S.threw
                     /\ S.activeWindow = zIndexTop - 1
                     /\ At(S.windows, S.activeWindow) = a
                     /\ FocusedIn(S.dlg, S.windows, S.zIndexTop) = {a}
                     /\ \A j \in H \ {i} : At(S.windows, j - 1) = At(windows, j)
           /\ moveAction = "_defaultMouseMove" =>
                 \A o \in BOOLEAN :
                    LET S == _onMouseMove(Cur, CornerPoint, o)
                    IN  /\ ~S.threw
                        /\ Touched(Cur, S) \subseteq {a}
                        /\ S.showTooltipTimer
                              \in {TimerIdle, [id |-> "set", args |-> i]}

\* C29 witness: with the pointer-over flag of all the windows of a full
\* registry set, a pointer down raised the window that was at index 0, the
\* one mounted first, and it alone has the focus
C29_Witness ==
    /\ zIndexTop = MaxWindows
    /\ \A a \in Adapters : dlg[a].cursorOnWindow
    /\ activeWindow = zIndexTop - 1
    /\ windows = <<2, 3, 1>>
    /\ FocusedIn(dlg, windows, zIndexTop) = {1}

(***************************************************************************)
(* Properties of the move gesture on the DialogRect.                       *)
(***************************************************************************)
\* C30: for every pointer position p0 at the start of a move gesture and
\* every later pointer position p, setCursorOffset(p0) followed by
\* moveToCursor(p) puts the rect at left + (p.x - p0.x), top + (p.y - p0.y)
\* and leaves its width and height alone
C30_MoveFollowsPointer ==
    \A p0 \in RectPoints, p \in RectPoints :
        LET r == moveToCursor(setCursorOffset(rect, Num(p0), Undef), p)
        IN  /\ r.left = rect.left + (p.x - p0.x)
            /\ r.top = rect.top + (p.y - p0.y)
            /\ r.width = rect.width
            /\ r.height = rect.height

(***************************************************************************)
(* Properties of the resize gesture and of the pointer classification.     *)
(***************************************************************************)
\* C31: on a rect with left >= 1 and top >= 1, for each of the 8 edge /
\* corner states e and every pointer position p, setCursorOffset(p, e)
\* followed by resizeToCursor(p, e) leaves left, top, width and height as
\* they were; and the offset setCursorOffset(p, e) stores is the same
\* whatever gesture set an offset before
C31_GrabPointKept ==
    (rect.left >= 1 /\ rect.top >= 1) =>
        \A e \in ResizeStates, p \in RectPoints :
            LET r0 == setCursorOffset(rect, Num(p), Num(e))
            IN  /\ SamePlace(resizeToCursor(r0, p, e), rect)
                /\ \A e1 \in {Undef} \cup {Num(t) : t \in ResizeStates},
                      p1 \in RectPoints :
                      setCursorOffset(setCursorOffset(rect, Num(p1), e1),
                                      Num(p), Num(e)).cursorOffset
                         = r0.cursorOffset

\* C31 witness: an on-screen 8 x 8 rect was grabbed by its bottom-right
\* corner off the corner itself, a resizeToCursor followed, and the rect is
\* where it was, with the size it had
C31_Witness ==
    /\ rop = [op |-> "resizeToCursor", type |-> cursorState.bottomright]
    /\ rect.cursorOffset.x # 0 /\ rect.cursorOffset.y # 0
    /\ rect.left = 3 /\ rect.top = 3
    /\ rect.width = 8 /\ rect.height = 8

\* the pointer positions at, just inside and just outside every boundary
\* getCursorResizeState compares with, for the rect rc
ProbePoints(rc) ==
    LET wo == rc.borderWidth + 2
        to == wo + 4
    IN  {Point(x, y) :
            x \in {rc.left - 1, rc.left, rc.left + wo, rc.left + wo + 1,
                   rc.right - wo - 1, rc.right - wo, rc.right, rc.right + 1},
            y \in {rc.top - 1, rc.top, rc.top + wo, rc.top + wo + 1,
                   rc.top + to, rc.top + to + 1,
                   rc.bottom - to - 1, rc.bottom - to,
                   rc.bottom - wo - 1, rc.bottom - wo, rc.bottom, rc.bottom + 1}}

\* what C32 says of the state getCursorResizeState gives for the pointer p on
\* the rect rc; tieBreak: where the right and the left band, or the bottom
\* and the top corner zone, overlap, the right band and the bottom zone win
Classified(rc, p, tieBreak) ==
    LET wo == rc.borderWidth + 2
        to == wo + 4
        cs == cursorState
        c  == getCursorResizeState(rc, p)
        inY   == isBetween(p.y, rc.top, rc.bottom)
        inX   == isBetween(p.x, rc.left, rc.right)
        inR   == isBetween(p.x, rc.right - wo, rc.right)
        inL   == isBetween(p.x, rc.left, rc.left + wo)
                 /\ (tieBreak => ~inR)
        nearB == inY /\ p.y >= rc.bottom - to
        nearT == inY /\ p.y <= rc.top + to /\ (tieBreak => ~nearB)
        inBands == \/ inR \/ inL
                   \/ isBetween(p.y, rc.bottom - wo, rc.bottom)
                   \/ isBetween(p.y, rc.top, rc.top + wo)
    IN  /\ c \in CursorStates
        /\ (inR /\ nearB) => c = cs.bottomright
        /\ (inR /\ nearT) => c = cs.topright
        /\ (inL /\ nearB) => c = cs.bottomleft
        /\ (inL /\ nearT) => c = cs.topleft
        /\ (~(inX /\ inY) \/ ~inBands) => c = cs.regular

\* C32 (as stated): getCursorResizeState gives one of the 9 states; in the
\* left or right band, within borderWidth + 6 of the top or bottom edge, it
\* gives the corner of that band and that edge, never the plain edge; off
\* every band and off the rect it gives regular
C32_CornersFirst ==
    \A rc \in {rect, NoRect} : \A p \in ProbePoints(rc) : Classified(rc, p, FALSE)

\* C32 (amended): the same, with the right band going before the left band
\* and the bottom corner zone before the top corner zone where they overlap
C32_CornersFirstRightBottom ==
    \A rc \in {rect, NoRect} : \A p \in ProbePoints(rc) : Classified(rc, p, TRUE)

\* C32 witness: a pointer in the right band of an 8 x 8 rect, where the top
\* and the bottom corner zone overlap, was classified as the bottom-right
\* corner
C32_Witness ==
    /\ rop = [op |-> "getCursorResizeState", type |-> cursorState.bottomright]
    /\ rect.width = 8 /\ rect.height = 8
    /\ rect.left = 3 /\ rect.top = 3


(***************************************************************************)
(* C33: the manager only reads the flags the adapter owns.  The handlers   *)
(* below call no adapter method that writes cursorOnWindow,                *)
(* cursorOnTitlebar, cursorOnTitlebarButtons, hoverTitlebarButton,         *)
(* isMaximized or isMinimized (showTooltip and closeTooltip, the adapter's *)
(* own methods, write the two tooltip flags): the pointer move outside a   *)
(* session, the viewport resize and the two timer callbacks leave these    *)
(* six flags of every adapter as they were.                                *)
(***************************************************************************)
OwnedFlags(w) ==
    <<w.cursorOnWindow, w.cursorOnTitlebar, w.cursorOnTitlebarButtons,
      w.hoverTitlebarButton, w.isMaximized, w.isMinimized>>
KeepsOwnedFlags(S) == \A a \in Adapters : OwnedFlags(S.dlg[a]) = OwnedFlags(dlg[a])

C33_ManagerReadsFlags ==
    /\ moveAction = "_defaultMouseMove" =>
          \A o \in BOOLEAN : KeepsOwnedFlags(_onMouseMove(Cur, ButtonPoint, o))
    /\ KeepsOwnedFlags(_onResize(Cur, Viewport.innerWidth, Viewport.innerHeight))
    /\ \A o \in BOOLEAN :
          KeepsOwnedFlags(_showTooltip(Cur, showTooltipTimer.args, o))
    /\ KeepsOwnedFlags(_resetTooltip(Cur))


(***************************************************************************)
(* C34: unregisterWindow(index) with a valid index lowers zIndexTop by one *)
(* and clears the vacated slot: afterwards no slot of windows refers to    *)
(* the removed adapter; in every reachable state no slot at a position     *)
(* >= zIndexTop holds an adapter, and zIndexTop is at most the length of   *)
(* windows.                                                                *)
(***************************************************************************)
C34_UnregisterClearsSlot ==
    /\ zIndexTop <= Len(windows)
    /\ \A i \in zIndexTop..(Len(windows) - 1) : At(windows, i) = NULL
    /\ \A z \in 0..(zIndexTop - 1) :
          LET a == At(windows, z)
              S == unregisterWindow(Cur, z)
          IN  a # NULL =>
                 /\ ~S.threw
                 /\ S.zIndexTop = zIndexTop - 1
                 /\ \A i \in 0..(Len(S.windows) - 1) : At(S.windows, i) # a


(***************************************************************************)
(* C35: the rect of a window is never smaller than its minimum size:       *)
(* width >= minWidth and height >= minHeight hold in every reachable       *)
(* state, after the construction with or without the optional arguments,   *)
(* after a maximize in any viewport, after a viewport resize while the     *)
(* window is maximized, and after a minimize and an un-minimize.           *)
(***************************************************************************)
AtLeastMinSize(rc) == rc.width >= rc.minWidth /\ rc.height >= rc.minHeight

C35_SizeAtLeastMin ==
    \A a \in Adapters : dlg[a].status = "mounted" => AtLeastMinSize(dlg[a].rc)


(***************************************************************************)
(* C36: during a Moving, Resizing or ButtonPress session activeWindow      *)
(* designates the adapter the session was started on: from one state of a  *)
(* session to the next, whatever is registered or unregistered in between, *)
(* windows[activeWindow] is the same adapter (a further press during the   *)
(* session is left aside: it picks the window again).                      *)
(***************************************************************************)
InSession ==
    moveAction \in {"_moveWindow", "_resizeWindow", "_titlebarButtonMouseMove"}
SessionWindow == At(windows, activeWindow)

C36_SessionWindowStays ==
    [][(/\ InSession
        /\ InSession'
        /\ ~(\E b \in Buttons : MouseDown(b, CornerPoint)))
       => SessionWindow' = SessionWindow]_vars


(***************************************************************************)
(* C37: whenever the mouseup handler reads the active window,              *)
(* activeWindow is a valid index, in [0, zIndexTop).  The handler reads it *)
(* on a left release that closes a move or a button press, and on a right  *)
(* release that finds rightClickTitlebar set: whatever the interleaving of *)
(* the presses and releases of the two buttons, such a right release never *)
(* finds activeWindow = NO_VALUE.                                          *)
(***************************************************************************)
MouseUpReadsWindow(button) ==
    \/ button = 0 /\ moveAction \in {"_moveWindow", "_titlebarButtonMouseMove"}
    \/ button = 2 /\ rightClickTitlebar

C37_MouseUpFindsWindow ==
    \A b \in Buttons :
        MouseUpReadsWindow(b) => activeWindow \in 0..(zIndexTop - 1)


(***************************************************************************)
(* C38: while a Moving, Resizing, ButtonPress or ContextMenuPending        *)
(* session is in progress, from its mousedown to the next mouseup, neither *)
(* tooltip timer is pending and no window is recorded as showing a         *)
(* tooltip; a mousedown that runs to its end leaves the tooltips so,       *)
(* whatever they were before.                                              *)
(***************************************************************************)
NoTooltipIn(S) ==
    /\ S.showTooltipTimer.id = "null"
    /\ S.closeTooltipTimer.id = "null"
    /\ S.windowWithVisibleTooltip = NO_VALUE

C38_NoTooltipInSession ==
    /\ moveAction # "_defaultMouseMove" => NoTooltipIn(Cur)
    /\ \A b \in Buttons :
          LET S == _onMouseDown(Cur, b, ButtonPoint)
          IN  ~S.threw => NoTooltipIn(S)

\* a button press session is in progress on a dialog whose button area the
\* pointer is on
C38_Witness ==
    /\ moveAction = "_titlebarButtonMouseMove"
    /\ activeWindow # NO_VALUE
    /\ At(windows, activeWindow) # NULL
    /\ dlg[At(windows, activeWindow)].cursorOnTitlebarButtons


(***************************************************************************)
(* C39: at most one adapter displays a tooltip, and when one does,         *)
(* windowWithVisibleTooltip is a valid index, in [0, zIndexTop), of the    *)
(* slot that holds that adapter, also after windows were registered,       *)
(* raised or unregistered while the tooltip was displayed.                 *)
(***************************************************************************)
WithTooltip == {a \in Adapters : dlg[a].status = "mounted" /\ dlg[a].tooltipVisible}

C39_OneTooltipRecorded ==
    /\ Cardinality(WithTooltip) <= 1
    /\ \A a \in WithTooltip :
          /\ windowWithVisibleTooltip \in 0..(zIndexTop - 1)
          /\ At(windows, windowWithVisibleTooltip) = a


(***************************************************************************)
(* C40: every displayed tooltip is dismissed in the end.  Whenever a       *)
(* window is recorded as showing a tooltip the close timer is pending;     *)
(* and when the timers that stay pending fire, a recorded tooltip leads to *)
(* windowWithVisibleTooltip = NO_VALUE and a dialog that displays a        *)
(* tooltip leads to that dialog displaying none.                           *)
(***************************************************************************)
TooltipRecorded == windowWithVisibleTooltip # NO_VALUE
DisplaysTooltip(a) == dlg[a].status = "mounted" /\ dlg[a].tooltipVisible

====
